---------------------------- MODULE Spec2Model ----------------------------
(***************************************************************************)
(* Model of the signal alignment, outlier-rejection and model-evaluation  *)
(* core of the blood-pressure pipeline:                                    *)
(*   Analysis/BP_Analysis/run_full_pipeline.py                            *)
(*   Analysis/BP_Analysis/train_bp_models.py                              *)
(*   Analysis/Waveform_Analysis/evaluate_waveforms.py                     *)
(*   BP_Analysis/evaluate_models.py                                       *)
(*                                                                         *)
(* Numbers are fixed-point integers.  A missing value (np.nan) is the     *)
(* sentinel NaN; every arithmetic operator below tests for it first.      *)
(***************************************************************************)
EXTENDS Integers, Sequences, FiniteSets, TLC

VARIABLES
    \* apply_antialiasing_filter, called once and then on its own result
    f_pc,          \* "start", "once" (filtered once), "twice"
    f_values,      \* the caller's array
    f_rate,        \* sampling_rate
    f_cutoff,      \* cutoff_freq
    f_order,       \* filter_order
    f_out,         \* the array returned by the first call
    f_out2,        \* the array returned by filtering f_out again
    \* load_and_trim_beats, the trim step
    t_pc,          \* "start", "done"
    t_rows,        \* the rows read from the beats file: [id, time]
    t_out,         \* the rows after the trim step: [id, time, adjusted_time_s]
    \* interpolate_reference (run_full_pipeline.py and evaluate_waveforms.py)
    i_pc,          \* "start_beats", "done_beats", "start_wave", "done_wave"
    i_times,       \* android_times / target_time: the times interpolated onto
    i_beats,       \* beats_df: rows [adjusted_time_s, SBP, DBP], ascending time
    i_grid,        \* resampled_times, <<>> when the function builds none
    i_ref,         \* the returned frame: rows [ref_SBP, ref_DBP]
    i_ref_time,    \* ref_time of the waveform variant
    i_ref_values,  \* ref_values of the waveform variant
    i_wave,        \* the array the waveform variant returns
    \* train_bp_models.remove_outliers
    o_pc,          \* "start", "zero", "range", "zscore", "done": the last stage run
    o_df,          \* the caller's table: rows [id, subject_id, time, value]
    o_target,      \* target_col: "ref_SBP" or "ref_DBP"
    o_time_col,    \* whether time_col was supplied
    o_prev,        \* df_clean before the last stage
    o_clean,       \* df_clean after the last stage
    \* run_full_pipeline.remove_outliers_from_beats
    b_pc,          \* "start", "range", "zscore", "done": the last stage run
    b_df,          \* the caller's table: rows [id, adjusted_time_s, SBP, DBP]
    b_prev,        \* df_clean before the last stage
    b_clean,       \* df_clean after the last stage
    b_view,        \* whether df_clean[col].values aliased the frame written to
    \* train_bp_models.aggregate_by_time_windows
    a_pc,          \* "start", "done"
    a_has_time,    \* FALSE when time_values is None
    a_time,        \* time_values
    a_true,        \* y_true
    a_pred,        \* y_pred
    a_window,      \* window_seconds
    a_unit,        \* time_unit
    a_out,         \* the returned pair of arrays [y_true, y_pred]
    \* train_bp_models.main (lines 852-866) and eval_one_method
    e_pc,          \* "main", "stopped", "start", "split", "folds", "returned", "raised"
    e_main,        \* whether eval_one_method is called by main
    e_df,          \* df: rows [id, subject_id, time, M1_A, M1_HR, target]
    e_strategy,    \* split_strategy: "groupkfold" or "timeseries"
    e_groups_given,\* whether groups is not None
    e_time_col,    \* whether the table has a time column (time_col is not None)
    e_window,      \* window_seconds
    e_n_splits,    \* args.n_splits, then the n_splits argument
    e_clean,       \* df_clean
    e_splits,      \* the (train, test) index arrays split_iter yields
    e_fold,        \* the fold the loop is at
    e_folds,       \* the folds evaluated so far
    e_result,      \* the returned dictionary
    \* mape of train_bp_models.py and of evaluate_models.py
    p_pc,          \* "start", "train", "both"
    p_true,        \* y_true
    p_pred,        \* y_pred
    p_out,         \* what train_bp_models.mape returned
    p_out2,        \* what evaluate_models.mape returned
    \* evaluate_waveforms.compute_metrics
    m_pc,          \* "start", "done"
    m_reference,   \* reference
    m_estimate,    \* estimate
    m_out,         \* the returned dictionary
    \* the estimator of a fold (eval_one_method, lines 527-575)
    r_pc,          \* "start", "built", "fitted", "raised"
    r_kind,        \* estimator_kind
    r_n,           \* len(X_tr)
    r_reg,         \* reg: the estimator class and its cv argument
    \* de-standardisation (eval_one_method, lines 701-708) and
    \* evaluate_models.predict_with_coefficients
    d_pc,          \* "start", "fold", "predicted"
    d_coef_std,    \* reg.coef_
    d_intercept_std, \* reg.intercept_
    d_mean,        \* scaler.mean_
    d_scale,       \* scaler.scale_
    d_x,           \* one raw input row
    d_coef_real,   \* coef_real
    d_intercept_real, \* intercept_real
    d_out          \* the two predictions for d_x

filterVars == <<f_pc, f_values, f_rate, f_cutoff, f_order, f_out, f_out2>>

trimVars == <<t_pc, t_rows, t_out>>

interpVars == <<i_pc, i_times, i_beats, i_grid, i_ref, i_ref_time, i_ref_values, i_wave>>

outlierVars == <<o_pc, o_df, o_target, o_time_col, o_prev, o_clean>>

beatsVars == <<b_pc, b_df, b_prev, b_clean, b_view>>

aggVars == <<a_pc, a_has_time, a_time, a_true, a_pred, a_window, a_unit, a_out>>

evalVars == <<e_pc, e_main, e_df, e_strategy, e_groups_given, e_time_col, e_window,
              e_n_splits, e_clean, e_splits, e_fold, e_folds, e_result>>

mapeVars == <<p_pc, p_true, p_pred, p_out, p_out2>>

metricsVars == <<m_pc, m_reference, m_estimate, m_out>>

regVars == <<r_pc, r_kind, r_n, r_reg>>

destdVars == <<d_pc, d_coef_std, d_intercept_std, d_mean, d_scale, d_x, d_coef_real,
               d_intercept_real, d_out>>

vars == <<filterVars, trimVars, interpVars, outlierVars, beatsVars, aggVars, evalVars,
          mapeVars, metricsVars, regVars, destdVars>>

\* What a step of one component leaves alone: the other components.
notFilter == <<trimVars, interpVars, outlierVars, beatsVars, aggVars, evalVars,
    mapeVars, metricsVars, regVars, destdVars>>

notTrim == <<filterVars, interpVars, outlierVars, beatsVars, aggVars, evalVars,
    mapeVars, metricsVars, regVars, destdVars>>

notInterp == <<filterVars, trimVars, outlierVars, beatsVars, aggVars, evalVars,
    mapeVars, metricsVars, regVars, destdVars>>

notOutlier == <<filterVars, trimVars, interpVars, beatsVars, aggVars, evalVars,
    mapeVars, metricsVars, regVars, destdVars>>

notBeats == <<filterVars, trimVars, interpVars, outlierVars, aggVars, evalVars,
    mapeVars, metricsVars, regVars, destdVars>>

notAgg == <<filterVars, trimVars, interpVars, outlierVars, beatsVars, evalVars,
    mapeVars, metricsVars, regVars, destdVars>>

notEval == <<filterVars, trimVars, interpVars, outlierVars, beatsVars, aggVars,
    mapeVars, metricsVars, regVars, destdVars>>

notMape == <<filterVars, trimVars, interpVars, outlierVars, beatsVars, aggVars,
    evalVars, metricsVars, regVars, destdVars>>

notMetrics == <<filterVars, trimVars, interpVars, outlierVars, beatsVars, aggVars,
    evalVars, mapeVars, regVars, destdVars>>

notReg == <<filterVars, trimVars, interpVars, outlierVars, beatsVars, aggVars,
    evalVars, mapeVars, metricsVars, destdVars>>

notDestd == <<filterVars, trimVars, interpVars, outlierVars, beatsVars, aggVars,
    evalVars, mapeVars, metricsVars, regVars>>

\* np.nan: a value outside every range the model draws numbers from.
NaN == -1000000

\* np.inf: a value outside every range the model draws numbers from.
Inf == 1000000

\* np.isfinite
IsFinite(x) == x # NaN /\ x # Inf

Abs(x) == IF x < 0 THEN -x ELSE x

Min2(a, b) == IF a <= b THEN a ELSE b

Max2(a, b) == IF a >= b THEN a ELSE b

\* All sequences over S of length 0..n.
SeqsUpTo(S, n) == UNION {[1..k -> S] : k \in 0..n}

\* Positions of a that hold NaN.
NaNPositions(a) == {i \in 1..Len(a) : a[i] = NaN}

\* Greatest common divisor of two naturals, not both zero.
RECURSIVE Gcd(_, _)
Gcd(a, b) == IF b = 0 THEN a ELSE Gcd(b, a % b)

\* The fraction n/d in lowest terms, d # 0.
Frac(n, d) ==
    LET g == Gcd(Abs(n), Abs(d))
        s == IF d < 0 THEN -1 ELSE 1
    IN  [num |-> s * (n \div g), den |-> s * (d \div g)]

\* a/b + c/d
FracAdd(x, y) == Frac(x.num * y.den + y.num * x.den, x.den * y.den)

\* np.sum over an array of fractions, first to last.
RECURSIVE FracSum(_)
FracSum(fs) ==
    IF fs = <<>> THEN [num |-> 0, den |-> 1]
    ELSE FracAdd(Head(fs), FracSum(Tail(fs)))

(***************************************************************************)
(* 1. apply_antialiasing_filter                                           *)
(*    (run_full_pipeline.py 59-122, evaluate_waveforms.py 101-164: the    *)
(*    two bodies are the same text)                                       *)
(***************************************************************************)

\* Longest array handed to the filter.
MaxLen == 7

\* Sample values of the filter input (besides NaN).
FilterVals == {0, 8}

\* (sampling_rate, cutoff_freq) pairs: (30, 15) is the pipeline's own pair
\* (cutoff = Nyquist), (30, 10) is below Nyquist, (20, 15) above it.
RateCutoffPairs == {<<30, 15>>, <<30, 10>>, <<20, 15>>}

\* filter_order values tried: with order 1 scipy's filtfilt needs more than
\* 6 samples, with order 2 more than 9.
FilterOrders == {1, 2}

\* valid_mask = np.isfinite(arr)
ValidMask(arr) == [i \in 1..Len(arr) |-> IsFinite(arr[i])]

\* valid_mask.sum()
ValidCount(arr) == Cardinality({i \in 1..Len(arr) : IsFinite(arr[i])})

\* pd.Series(arr).interpolate(method="linear", limit_direction="both"):
\* an interior NaN lies on the line between its nearest valid neighbours
\* (positions equally spaced), a leading or trailing NaN takes the nearest
\* valid value.  An array without any valid value stays as it is.
Interpolate(arr) ==
    [i \in 1..Len(arr) |->
        IF IsFinite(arr[i]) THEN arr[i]
        ELSE LET before == {j \in 1..i : IsFinite(arr[j])}
                 after  == {j \in i..Len(arr) : IsFinite(arr[j])}
             IN  IF before = {} /\ after = {} THEN NaN
                 ELSE IF before = {}
                      THEN arr[CHOOSE j \in after : \A k \in after : j <= k]
                 ELSE IF after = {}
                      THEN arr[CHOOSE j \in before : \A k \in before : j >= k]
                 ELSE LET p == CHOOSE j \in before : \A k \in before : j >= k
                          n == CHOOSE j \in after : \A k \in after : j <= k
                      IN  arr[p] + ((arr[n] - arr[p]) * (i - p)) \div (n - p)]

\* signal.butter + signal.filtfilt raise (ValueError) when the input is not
\* longer than filtfilt's default padlen = 3 * max(len(a), len(b)), which is
\* 3 * (filter_order + 1) for a Butterworth design of that order.
FiltfiltRaises(arr, filter_order) == Len(arr) <= 3 * (filter_order + 1)

\* signal.filtfilt(b, a, arr): the zero-phase low-pass response, abstracted
\* as a symmetric 1-2-1 smoothing kernel with the edges replicated.  What
\* the pipeline relies on is kept: same length, finite output for finite
\* input, unit gain on a constant signal, and not the identity.
Filtfilt(arr) ==
    [i \in 1..Len(arr) |->
        LET l == IF i = 1 THEN arr[i] ELSE arr[i - 1]
            r == IF i = Len(arr) THEN arr[i] ELSE arr[i + 1]
        IN  IF l = NaN \/ r = NaN \/ arr[i] = NaN THEN NaN
            ELSE (l + 2 * arr[i] + r) \div 4]

\* A wrong restore: NaN written where the input was valid.
RestoreNaNInverted(filtered, valid_mask) ==
    [i \in 1..Len(filtered) |-> IF valid_mask[i] THEN NaN ELSE filtered[i]]

\* filtered[~valid_mask] = np.nan
RestoreNaN(filtered, valid_mask) ==
    [i \in 1..Len(filtered) |-> IF valid_mask[i] THEN filtered[i] ELSE NaN]

\* Which return statement apply_antialiasing_filter leaves by.
FilterPath(values, sampling_rate, cutoff_freq, filter_order) ==
    IF ValidCount(values) < filter_order + 1 THEN "too_few"
    ELSE IF 2 * cutoff_freq >= sampling_rate THEN "nyquist"
    ELSE IF FiltfiltRaises(values, filter_order) THEN "except"
    ELSE "filtered"

\* apply_antialiasing_filter(values, sampling_rate, cutoff_freq, filter_order)
ApplyAntialiasingFilter(values, sampling_rate, cutoff_freq, filter_order) ==
    LET valid_mask == ValidMask(values)
        all_valid  == \A i \in 1..Len(values) : valid_mask[i]
    IN  IF ValidCount(values) < filter_order + 1 THEN values
        ELSE LET arr == IF all_valid THEN values ELSE Interpolate(values)
             IN  \* nyquist = sampling_rate / 2.0; cutoff_freq >= nyquist
                 IF 2 * cutoff_freq >= sampling_rate THEN arr
                 ELSE IF FiltfiltRaises(arr, filter_order) THEN arr
                 ELSE LET filtered == Filtfilt(arr)
                      IN  IF all_valid THEN filtered
                          ELSE RestoreNaN(filtered, valid_mask)

FilterInit ==
    /\ f_pc = "start"
    /\ f_values \in SeqsUpTo(FilterVals \cup {NaN}, MaxLen)
    /\ \E rc \in RateCutoffPairs : f_rate = rc[1] /\ f_cutoff = rc[2]
    /\ f_order \in FilterOrders
    /\ f_out = <<>>
    /\ f_out2 = <<>>

\* out = apply_antialiasing_filter(values, ...)
FilterOnce ==
    /\ f_pc = "start"
    /\ f_out' = ApplyAntialiasingFilter(f_values, f_rate, f_cutoff, f_order)
    /\ f_pc' = "once"
    /\ UNCHANGED <<f_values, f_rate, f_cutoff, f_order, f_out2, notFilter>>

\* out2 = apply_antialiasing_filter(out, ...) with the same parameters
FilterTwice ==
    /\ f_pc = "once"
    /\ f_out2' = ApplyAntialiasingFilter(f_out, f_rate, f_cutoff, f_order)
    /\ f_pc' = "twice"
    /\ UNCHANGED <<f_values, f_rate, f_cutoff, f_order, f_out, notFilter>>

FilterNext == FilterOnce \/ FilterTwice

\* The filter variables while another component is exercised.
FilterIdle ==
    /\ f_pc = "idle"
    /\ f_values = <<>>
    /\ f_rate = 0
    /\ f_cutoff = 0
    /\ f_order = 0
    /\ f_out = <<>>
    /\ f_out2 = <<>>

\* ---- claims about apply_antialiasing_filter ----

\* C1 (as stated): whenever cutoff_freq >= sampling_rate / 2 the returned
\* array equals the input array element for element, NaN included.
C1_NyquistReturnsInput ==
    (f_pc # "start" /\ 2 * f_cutoff >= f_rate) => f_out = f_values

\* C2 (as stated): whichever return path is taken, the output is NaN at
\* exactly the positions where the input was NaN.
C2_NaNPositionsPreserved ==
    f_pc # "start" => NaNPositions(f_out) = NaNPositions(f_values)

\* C3: filtering an already-filtered signal again with the same parameters
\* leaves the set of NaN positions as the first call returned it.
C3_RefilterKeepsNaNPositions ==
    f_pc = "twice" => NaNPositions(f_out2) = NaNPositions(f_out)

\* C3 witness: the Butterworth branch ran twice on an input with NaN holes,
\* changed the finite values both times and kept the holes.
C3_Witness ==
    /\ f_pc = "twice"
    /\ FilterPath(f_values, f_rate, f_cutoff, f_order) = "filtered"
    /\ FilterPath(f_out, f_rate, f_cutoff, f_order) = "filtered"
    /\ NaNPositions(f_values) # {}
    /\ f_out # f_values
    /\ f_out2 # f_out

(***************************************************************************)
(* 2. load_and_trim_beats: the trim step (run_full_pipeline.py 227-233)   *)
(***************************************************************************)

\* The window of load_and_trim_beats: max_time - 60.0, clamp at 60.
WINDOW_S == 60

\* Most rows of a beats file in the trim model.
MaxBeatRows == 3

\* Beat times "Time [s]" (finite: rows whose time is missing or not a
\* number were dropped at lines 218-225).
BeatTimes == {0, 10, 69, 70, 71, 130}

\* Window lengths compared with each other.
Windows == {30, 60, 90}

\* df.sort_values(key).reset_index(drop=True): rows in ascending key order,
\* equal keys in their original order.
SortRowsBy(rows, key) ==
    LET n == Len(rows)
        rank(i) == 1 + Cardinality({j \in 1..n :
                        \/ key[j] < key[i]
                        \/ (key[j] = key[i] /\ j < i)})
    IN  [k \in 1..n |-> rows[CHOOSE i \in 1..n : rank(i) = k]]

\* The rows a sequence keeps under a row predicate, in their order.
RECURSIVE SelectRows(_, _)
SelectRows(rows, keep) ==
    IF rows = <<>> THEN <<>>
    ELSE LET rest == SelectRows(Tail(rows), [i \in 1..(Len(rows) - 1) |-> keep[i + 1]])
         IN  IF keep[1] THEN <<Head(rows)>> \o rest ELSE rest

\* df["Time [s]"].max()
MaxTime(rows) ==
    CHOOSE t \in {rows[i].time : i \in 1..Len(rows)} :
        \A i \in 1..Len(rows) : rows[i].time <= t

\* A wrong filter: the row exactly window seconds before the end is lost.
TrimKeepsStrict(time, start_time) == time > start_time

\* df["Time [s]"] >= start_time
TrimKeeps(time, start_time) == time >= start_time

\* Lines 227-233 with the window length as a parameter (60 in the code).
TrimToLastWindow(rows, window) ==
    LET sorted     == SortRowsBy(rows, [i \in 1..Len(rows) |-> rows[i].time])
        max_time   == MaxTime(sorted)
        start_time == max_time - window
        kept       == SelectRows(sorted,
                          [i \in 1..Len(sorted) |-> TrimKeeps(sorted[i].time, start_time)])
        adjust(t)  == LET a == t - start_time
                      IN  IF a < 0 THEN 0 ELSE IF a > window THEN window ELSE a
    IN  [i \in 1..Len(kept) |->
            [id |-> kept[i].id, time |-> kept[i].time,
             adjusted_time_s |-> adjust(kept[i].time)]]

TrimInit ==
    /\ t_pc = "start"
    /\ \E n \in 1..MaxBeatRows : \E ts \in [1..n -> BeatTimes] :
           t_rows = [i \in 1..n |-> [id |-> i, time |-> ts[i]]]
    /\ t_out = <<>>

\* load_and_trim_beats, lines 227-233
Trim ==
    /\ t_pc = "start"
    /\ t_out' = TrimToLastWindow(t_rows, WINDOW_S)
    /\ t_pc' = "done"
    /\ UNCHANGED <<t_rows, notTrim>>

TrimNext == Trim

\* The trim variables while another component is exercised.
TrimIdle ==
    /\ t_pc = "idle"
    /\ t_rows = <<>>
    /\ t_out = <<>>

\* Ids of the rows of a trimmed table.
RowIds(rows) == {rows[i].id : i \in 1..Len(rows)}

\* C4: a row is retained iff its time is >= max_time - W; every retained
\* row has adjusted_time_s in [0, W] and the row at max_time has W; the rows
\* retained for a shorter window are among those retained for a longer one.
C4_TrimWindow ==
    t_pc = "done" =>
        LET max_time == MaxTime(t_rows)
        IN  /\ \A i \in 1..Len(t_rows) :
                   (t_rows[i].id \in RowIds(t_out)) <=> (t_rows[i].time >= max_time - WINDOW_S)
            /\ \A k \in 1..Len(t_out) :
                   /\ 0 <= t_out[k].adjusted_time_s
                   /\ t_out[k].adjusted_time_s <= WINDOW_S
                   /\ (t_out[k].time = max_time => t_out[k].adjusted_time_s = WINDOW_S)
            /\ \A w1, w2 \in Windows :
                   w1 <= w2 => RowIds(TrimToLastWindow(t_rows, w1))
                                   \subseteq RowIds(TrimToLastWindow(t_rows, w2))

\* C4 witness: a file with a row older than the window, a row exactly on
\* its edge and a row at the end; the first is dropped, the others kept.
C4_Witness ==
    /\ t_pc = "done"
    /\ Len(t_rows) = 3
    /\ Len(t_out) = 2
    /\ \E k \in 1..Len(t_out) : t_out[k].adjusted_time_s = 0
    /\ \E k \in 1..Len(t_out) : t_out[k].adjusted_time_s = WINDOW_S

(***************************************************************************)
(* 3. interpolate_reference                                               *)
(*    run_full_pipeline.py 265-365 (beats onto the Android time axis) and *)
(*    evaluate_waveforms.py 248-266 (finger waveform onto the phone axis) *)
(*    Times are in ticks of 1 / TICKS_PER_SECOND seconds.                 *)
(***************************************************************************)

RESAMPLE_RATE_HZ == 30

ANTIALIAS_CUTOFF_HZ == 15

\* filter_order's default value
DEFAULT_FILTER_ORDER == 4

\* Clock resolution of the model: two ticks per resampling step, so that a
\* time range can be an odd number of ticks (no multiple of the step).
TICKS_PER_SECOND == 2 * RESAMPLE_RATE_HZ

\* 1.0 / RESAMPLE_RATE_HZ, in ticks
ResampleStep == TICKS_PER_SECOND \div RESAMPLE_RATE_HZ

\* Most rows of beats_df / samples of ref_time.
MaxBeats == 3

\* Most target times.
MaxTargets == 2

\* Times of the source samples, in ticks.
SourceTimes == {0, 1, 3, 8}

\* Target times, in ticks: before, inside and after the source range.
TargetTimes == {-1, 0, 2, 4, 5, 6}

\* (SBP, DBP) of a beat that survived load_and_trim_beats: both finite.
BeatValues == {<<100, 60>>, <<120, 80>>}

\* Values of the reference waveform: NaN allowed.
WaveValues == {NaN, 100, 120}

\* np.arange(start, stop, step) for step > 0: start + k * step for every
\* k >= 0 with start + k * step < stop.
Arange(start, stop, step) ==
    LET n == IF stop <= start THEN 0 ELSE (stop - start + step - 1) \div step
    IN  [k \in 1..n |-> start + (k - 1) * step]

\* Smallest / largest element of a non-empty array of finite numbers.
ArrMin(a) == CHOOSE x \in {a[i] : i \in 1..Len(a)} : \A i \in 1..Len(a) : x <= a[i]

ArrMax(a) == CHOOSE x \in {a[i] : i \in 1..Len(a)} : \A i \in 1..Len(a) : x >= a[i]

\* np.interp(x, xp, fp) for one x, xp ascending and non-empty: fp[1] left of
\* xp, fp[last] right of it, otherwise on the segment that starts at the
\* last j with xp[j] <= x.
NpInterp(x, xp, fp) ==
    IF x = NaN THEN NaN
    ELSE IF x < xp[1] THEN fp[1]
    ELSE IF x > xp[Len(xp)] THEN fp[Len(fp)]
    ELSE LET js == {i \in 1..Len(xp) : xp[i] <= x}
             j  == CHOOSE i \in js : \A k \in js : k <= i
         IN  IF j = Len(xp) \/ xp[j] = x THEN fp[j]
             ELSE IF fp[j] = NaN \/ fp[j + 1] = NaN THEN NaN
             ELSE fp[j] + ((fp[j + 1] - fp[j]) * (x - xp[j])) \div (xp[j + 1] - xp[j])

\* np.interp over an array of x
NpInterpAll(xs, xp, fp) == [k \in 1..Len(xs) |-> NpInterp(xs[k], xp, fp)]

\* np.full_like(a, np.nan, dtype=float)
FullNaN(a) == [k \in 1..Len(a) |-> NaN]

\* Column of a frame as an array.
Column(rows, name) == [k \in 1..Len(rows) |-> rows[k][name]]

\* A wrong test: one beat is taken to be enough to interpolate.
EnoughBeatsOne(beat_times) == Len(beat_times) >= 1

\* len(beat_times) > 1
EnoughBeats(beat_times) == Len(beat_times) > 1

\* np.arange(time_min, time_max + 1.0 / RESAMPLE_RATE_HZ, 1.0 / RESAMPLE_RATE_HZ)
ResampledTimes(time_min, time_max) ==
    Arange(time_min, time_max + ResampleStep, ResampleStep)

\* Lines 291-315 for one column: resample onto the grid, then filter.
ResampleColumn(resampled_times, beat_times, values) ==
    LET valid == {i \in 1..Len(values) : IsFinite(values[i])}
        keep  == [i \in 1..Len(values) |-> i \in valid]
        res   == IF Cardinality(valid) >= 2
                 THEN NpInterpAll(resampled_times,
                                  SelectRows(beat_times, keep), SelectRows(values, keep))
                 ELSE FullNaN(resampled_times)
    IN  ApplyAntialiasingFilter(res, RESAMPLE_RATE_HZ, ANTIALIAS_CUTOFF_HZ,
                                DEFAULT_FILTER_ORDER)

\* A wrong interpolation: past the ends of xp the line of the nearest
\* segment is extended.
InterpOntoExtended(android_times, xp, fp) ==
    [k \in 1..Len(android_times) |->
        IF android_times[k] = NaN THEN NaN
        ELSE IF xp[Len(xp)] = xp[1] THEN fp[1]
        ELSE fp[1] + ((fp[Len(fp)] - fp[1]) * (android_times[k] - xp[1]))
                         \div (xp[Len(xp)] - xp[1])]

\* Lines 318-337 / 340-359 for one column: NaN everywhere, np.interp where
\* the target time is finite and inside [xp.min(), xp.max()].
InterpOnto(android_times, xp, fp) ==
    [k \in 1..Len(android_times) |->
        IF /\ IsFinite(android_times[k])
           /\ android_times[k] >= ArrMin(xp)
           /\ android_times[k] <= ArrMax(xp)
        THEN NpInterp(android_times[k], xp, fp)
        ELSE NaN]

\* resampled_times as interpolate_reference builds it (<<>> when it does not)
GridOf(beats_df) ==
    LET beat_times == Column(beats_df, "adjusted_time_s")
    IN  IF beats_df # <<>> /\ EnoughBeats(beat_times)
           /\ ArrMax(beat_times) - ArrMin(beat_times) > 0
        THEN ResampledTimes(ArrMin(beat_times), ArrMax(beat_times))
        ELSE <<>>

\* run_full_pipeline.interpolate_reference(android_times, beats_df)
InterpolateReference(android_times, beats_df) ==
    LET beat_times == Column(beats_df, "adjusted_time_s")
        sbp_values == Column(beats_df, "SBP")
        dbp_values == Column(beats_df, "DBP")
        frame(sbp, dbp) == [k \in 1..Len(android_times) |->
                               [ref_SBP |-> sbp[k], ref_DBP |-> dbp[k]]]
    IN  IF beats_df = <<>>
        THEN frame(FullNaN(android_times), FullNaN(android_times))
        ELSE IF EnoughBeats(beat_times)
        THEN IF ArrMax(beat_times) - ArrMin(beat_times) > 0
             THEN LET resampled_times == GridOf(beats_df)
                      resampled_sbp == ResampleColumn(resampled_times, beat_times, sbp_values)
                      resampled_dbp == ResampleColumn(resampled_times, beat_times, dbp_values)
                  IN  frame(InterpOnto(android_times, resampled_times, resampled_sbp),
                            InterpOnto(android_times, resampled_times, resampled_dbp))
             ELSE frame(InterpOnto(android_times, beat_times, sbp_values),
                        InterpOnto(android_times, beat_times, dbp_values))
        ELSE frame(FullNaN(android_times), FullNaN(android_times))

\* evaluate_waveforms.interpolate_reference(ref_time, ref_values, target_time)
InterpolateWaveReference(ref_time, ref_values, target_time) ==
    LET valid_mask == ValidMask(ref_values)
    IN  IF ValidCount(ref_values) < 2 THEN FullNaN(target_time)
        ELSE LET ref_time_valid   == SelectRows(ref_time, valid_mask)
                 ref_values_valid == SelectRows(ref_values, valid_mask)
             IN  [k \in 1..Len(target_time) |->
                    IF \/ target_time[k] < ArrMin(ref_time_valid)
                       \/ target_time[k] > ArrMax(ref_time_valid)
                    THEN NaN
                    ELSE NpInterp(target_time[k], ref_time_valid, ref_values_valid)]

\* Ascending (ties allowed) sequences over S of length 0..n.
AscendingSeqs(S, n) ==
    {a \in SeqsUpTo(S, n) : \A i \in 1..(Len(a) - 1) : a[i] <= a[i + 1]}

\* Strictly ascending sequences over S of length 0..n.
StrictlyAscendingSeqs(S, n) ==
    {a \in SeqsUpTo(S, n) : \A i \in 1..(Len(a) - 1) : a[i] < a[i + 1]}

\* beats_df as load_and_trim_beats returns it: sorted by time, no NaN.
InterpInitBeats ==
    /\ i_pc = "start_beats"
    /\ i_times \in SeqsUpTo(TargetTimes, MaxTargets)
    /\ \E ts \in AscendingSeqs(SourceTimes, MaxBeats) :
       \E vs \in [1..Len(ts) -> BeatValues] :
           i_beats = [k \in 1..Len(ts) |->
                         [adjusted_time_s |-> ts[k], SBP |-> vs[k][1], DBP |-> vs[k][2]]]
    /\ i_grid = <<>>
    /\ i_ref = <<>>
    /\ i_ref_time = <<>>
    /\ i_ref_values = <<>>
    /\ i_wave = <<>>

\* The finger waveform: time_s = arange(len) / FINGER_SAMPLING_HZ is strictly
\* ascending, the values may hold NaN.
InterpInitWave ==
    /\ i_pc = "start_wave"
    /\ i_times \in SeqsUpTo(TargetTimes, MaxTargets)
    /\ i_ref_time \in StrictlyAscendingSeqs(SourceTimes, MaxBeats)
    /\ i_ref_values \in [1..Len(i_ref_time) -> WaveValues]
    /\ i_beats = <<>>
    /\ i_grid = <<>>
    /\ i_ref = <<>>
    /\ i_wave = <<>>

InterpInit == InterpInitBeats \/ InterpInitWave

\* ref_df = interpolate_reference(android_times, beats_df)
InterpolateBeats ==
    /\ i_pc = "start_beats"
    /\ i_grid' = GridOf(i_beats)
    /\ i_ref' = InterpolateReference(i_times, i_beats)
    /\ i_pc' = "done_beats"
    /\ UNCHANGED <<i_times, i_beats, i_ref_time, i_ref_values, i_wave, notInterp>>

\* ref_values = interpolate_reference(ref_time, ref_values, target_time)
InterpolateWave ==
    /\ i_pc = "start_wave"
    /\ i_wave' = InterpolateWaveReference(i_ref_time, i_ref_values, i_times)
    /\ i_pc' = "done_wave"
    /\ UNCHANGED <<i_times, i_beats, i_grid, i_ref, i_ref_time, i_ref_values, notInterp>>

InterpNext == InterpolateBeats \/ InterpolateWave

\* The interpolation variables while another component is exercised.
InterpIdle ==
    /\ i_pc = "idle"
    /\ i_times = <<>>
    /\ i_beats = <<>>
    /\ i_grid = <<>>
    /\ i_ref = <<>>
    /\ i_ref_time = <<>>
    /\ i_ref_values = <<>>
    /\ i_wave = <<>>

\* ---- claims about interpolation ----

\* Times of the finite samples of the waveform reference.
WaveValidTimes == SelectRows(i_ref_time, ValidMask(i_ref_values))

\* C5 (as stated): a target time smaller than the minimum or larger than
\* the maximum source time gets NaN, in both interpolate_reference functions.
C5_NoExtrapolation ==
    /\ (i_pc = "done_beats" /\ i_beats # <<>>) =>
           LET beat_times == Column(i_beats, "adjusted_time_s")
           IN  \A k \in 1..Len(i_times) :
                   (i_times[k] < ArrMin(beat_times) \/ i_times[k] > ArrMax(beat_times))
                       => (i_ref[k].ref_SBP = NaN /\ i_ref[k].ref_DBP = NaN)
    /\ (i_pc = "done_wave" /\ WaveValidTimes # <<>>) =>
           \A k \in 1..Len(i_times) :
               (i_times[k] < ArrMin(WaveValidTimes) \/ i_times[k] > ArrMax(WaveValidTimes))
                   => i_wave[k] = NaN

\* C6 (as stated): for at least 2 beats over a positive time range the grid
\* starts at the minimum beat time, steps by exactly 1 / RESAMPLE_RATE_HZ
\* and stays inside [min beat time, max beat time].
C6_GridInsideBeatRange ==
    (i_pc = "done_beats" /\ Len(i_beats) >= 2) =>
        LET beat_times == Column(i_beats, "adjusted_time_s")
        IN  ArrMax(beat_times) > ArrMin(beat_times) =>
                /\ i_grid # <<>>
                /\ i_grid[1] = ArrMin(beat_times)
                /\ \A k \in 1..(Len(i_grid) - 1) : i_grid[k + 1] - i_grid[k] = ResampleStep
                /\ \A k \in 1..Len(i_grid) :
                       ArrMin(beat_times) <= i_grid[k] /\ i_grid[k] <= ArrMax(beat_times)

\* C7: with fewer than 2 finite source samples the result has one entry per
\* target time and every entry is NaN.
C7_TooFewSamplesAllNaN ==
    /\ (i_pc = "done_beats" /\ Len(i_beats) < 2) =>
           /\ Len(i_ref) = Len(i_times)
           /\ \A k \in 1..Len(i_ref) : i_ref[k].ref_SBP = NaN /\ i_ref[k].ref_DBP = NaN
    /\ (i_pc = "done_wave" /\ ValidCount(i_ref_values) < 2) =>
           /\ Len(i_wave) = Len(i_times)
           /\ \A k \in 1..Len(i_wave) : i_wave[k] = NaN

\* C7 witness: a single beat and a target time exactly on it; the frame has
\* one row per target and the target on the beat is NaN all the same.
C7_Witness ==
    /\ i_pc = "done_beats"
    /\ Len(i_beats) = 1
    /\ Len(i_times) = MaxTargets
    /\ \E k \in 1..Len(i_times) : i_times[k] = i_beats[1].adjusted_time_s
    /\ Len(i_ref) = Len(i_times)
    /\ \A k \in 1..Len(i_ref) : i_ref[k].ref_SBP = NaN

(***************************************************************************)
(* 4. remove_outliers (train_bp_models.py 261-373)                        *)
(*    A table is a sequence of rows [id, subject_id, time, value]; value  *)
(*    is the target column.  Subjects are numbered, and ordered as their  *)
(*    names are.                                                          *)
(***************************************************************************)

\* Physiological ranges, mmHg.
SBP_MIN == 60

SBP_MAX == 200

DBP_MIN == 40

DBP_MAX == 150

\* The +-3 sigma threshold of the z-score and of the temporal stage.
SIGMA_THRESHOLD == 3

\* Fewest rows of a group the statistical stages look at.
MIN_GROUP_ROWS == 3

RECURSIVE SumSeq(_)
SumSeq(a) == IF a = <<>> THEN 0 ELSE Head(a) + SumSeq(Tail(a))

\* n * sum(v^2) - sum(v)^2 = n^2 * population variance
\*                         = n * (n - 1) * sample variance (ddof = 1).
ScaledVariance(vals) ==
    Len(vals) * SumSeq([i \in 1..Len(vals) |-> vals[i] * vals[i]])
        - SumSeq(vals) * SumSeq(vals)

\* A wrong threshold: 2 standard deviations.
ZScoreExceedsTwoSigma(v, vals) ==
    LET n == Len(vals)
        d == n * v - SumSeq(vals)
    IN  /\ ScaledVariance(vals) > 0
        /\ (n - 1) * d * d > 2 * 2 * n * ScaledVariance(vals)

\* std_val > 0 and abs((v - mean_val) / std_val) > 3.0 with pandas' std
\* (ddof = 1), both sides squared and cleared of denominators:
\*   (v - S/n)^2 > 9 * (n*Q - S^2) / (n*(n-1)).
ZScoreExceeds(v, vals) ==
    LET n == Len(vals)
        d == n * v - SumSeq(vals)
    IN  /\ ScaledVariance(vals) > 0
        /\ (n - 1) * d * d
               > SIGMA_THRESHOLD * SIGMA_THRESHOLD * n * ScaledVariance(vals)

\* abs(curr - (prev + next) / 2.0) > 3.0 * std with numpy's std (ddof = 0),
\* both sides squared and cleared of denominators:
\*   (2c - p - q)^2 / 4 > 9 * (n*Q - S^2) / n^2.
\* A NaN operand makes the comparison false.
TemporalExceeds(prev_val, curr_val, next_val, vals) ==
    LET n == Len(vals)
        d == 2 * curr_val - prev_val - next_val
    IN  /\ prev_val # NaN /\ curr_val # NaN /\ next_val # NaN
        /\ n * n * d * d
               > 4 * SIGMA_THRESHOLD * SIGMA_THRESHOLD * ScaledVariance(vals)

\* A wrong range test: the bounds themselves are rejected.
InRangeExclusive(target_col, v) ==
    IF target_col = "ref_SBP" THEN v > SBP_MIN /\ v < SBP_MAX
    ELSE v > DBP_MIN /\ v < DBP_MAX

\* (df[target] >= 60) & (df[target] <= 200), or 40 and 150 for ref_DBP;
\* NaN compares false.
InRange(target_col, v) ==
    /\ v # NaN
    /\ IF target_col = "ref_SBP" THEN v >= SBP_MIN /\ v <= SBP_MAX
       ELSE v >= DBP_MIN /\ v <= DBP_MAX

\* A wrong dropna: the rows whose target was set to NaN stay in the table.
DropNaKeepsAll(df) == df

\* df.dropna(subset=[target_col])
DropNa(df) == SelectRows(df, [i \in 1..Len(df) |-> df[i].value # NaN])

\* The table with the rows in `flagged` set to NaN in the target column.
SetNaN(df, flagged) ==
    [i \in 1..Len(df) |-> IF i \in flagged THEN [df[i] EXCEPT !.value = NaN] ELSE df[i]]

\* Stage 0 (lines 284-289): zeros become NaN and the NaN rows are dropped.
ZeroStage(df) ==
    LET zeros == {i \in 1..Len(df) : df[i].value = 0}
    IN  IF zeros # {} THEN DropNa(SetNaN(df, zeros)) ELSE df

\* Stage 1 (lines 291-305)
RangeStage(df, target_col) ==
    SelectRows(df, [i \in 1..Len(df) |-> InRange(target_col, df[i].value)])

\* A wrong mask: the statistics are taken over the whole table.
SubjectMaskAll(df, subject_id) == [i \in 1..Len(df) |-> TRUE]

\* subject_mask = df_clean[subject_col] == subject_id
SubjectMask(df, subject_id) == [i \in 1..Len(df) |-> df[i].subject_id = subject_id]

\* df_clean.loc[subject_mask, target_col] as an array
SubjectData(df, subject_id) ==
    Column(SelectRows(df, SubjectMask(df, subject_id)), "value")

\* Stage 2 (lines 307-328).  The loop over the subjects writes NaN only
\* into rows of the subject at hand and reads only those, so its passes
\* are independent and are taken together.
ZScoreStage(df) ==
    LET flagged == {i \in 1..Len(df) :
                       LET subject_data == SubjectData(df, df[i].subject_id)
                       IN  /\ Len(subject_data) >= MIN_GROUP_ROWS
                           /\ ZScoreExceeds(df[i].value, subject_data)}
    IN  IF flagged # {} THEN DropNa(SetNaN(df, flagged)) ELSE df

\* df.sort_values([subject_col, time_col]).reset_index(drop=True): a stable
\* sort on the pair.
SortBySubjectTime(df) ==
    LET n == Len(df)
        before(j, i) == \/ df[j].subject_id < df[i].subject_id
                        \/ /\ df[j].subject_id = df[i].subject_id
                           /\ df[j].time < df[i].time
                        \/ /\ df[j].subject_id = df[i].subject_id
                           /\ df[j].time = df[i].time
                           /\ j < i
        rank(i) == 1 + Cardinality({j \in 1..n : before(j, i)})
    IN  [k \in 1..n |-> df[CHOOSE i \in 1..n : rank(i) = k]]

\* Stage 3 (lines 330-366) on a sorted table: row i is flagged when it is an
\* interior row of its subject's block, the block has at least 3 rows and a
\* non-zero std, and it differs from the mean of its two neighbours by more
\* than 3 std.  subject_values is taken from a copy of the block, so the
\* NaN written into df_clean is not read back.
TemporalFlagged(sorted) ==
    {i \in 1..Len(sorted) :
        LET subject_values == SubjectData(sorted, sorted[i].subject_id)
        IN  /\ i > 1 /\ i < Len(sorted)
            /\ sorted[i - 1].subject_id = sorted[i].subject_id
            /\ sorted[i + 1].subject_id = sorted[i].subject_id
            /\ Len(subject_values) >= MIN_GROUP_ROWS
            /\ ScaledVariance(subject_values) # 0
            /\ TemporalExceeds(sorted[i - 1].value, sorted[i].value,
                               sorted[i + 1].value, subject_values)}

TemporalStage(df, time_col) ==
    IF ~time_col THEN df
    ELSE LET sorted  == SortBySubjectTime(df)
             flagged == TemporalFlagged(sorted)
         IN  IF flagged # {} THEN DropNa(SetNaN(sorted, flagged)) ELSE sorted

\* ---- the tables the model feeds to remove_outliers ----

Subjects == {1, 2}

\* Values on and next to the range bounds, and the zero of a failed reading.
ProbeValues(target_col) ==
    IF target_col = "ref_SBP" THEN {0, 59, 60, 200, 201} ELSE {0, 39, 40, 150, 151}

\* Rows of a probe table.
MaxProbeRows == 2

\* The series of the specification's example.
ExampleSBP == <<70, 72, 71, 500, 73>>

\* A steady reading and a spike below and above it, all inside both ranges.
BaseValue == 100

SpikeValues == {70, 130}

\* Most rows of the long group.
MaxGroupRows == 11

\* Value series of the second subject next to the long group.
OtherGroups == {<<>>, <<70, 130>>, <<70, 100, 130>>}

TimeOrders(n) == {f \in [1..n -> 1..n] : \A i, j \in 1..n : i # j => f[i] # f[j]}

\* Rows from parallel arrays.
Table(subjects, times, values) ==
    [i \in 1..Len(values) |->
        [id |-> i, subject_id |-> subjects[i], time |-> times[i], value |-> values[i]]]

\* Short tables over the probe values, any subject per row, times ascending.
ProbeInit ==
    /\ o_target \in {"ref_SBP", "ref_DBP"}
    /\ \E n \in 0..MaxProbeRows :
       \E ss \in [1..n -> Subjects] : \E vs \in [1..n -> ProbeValues(o_target)] :
           o_df = Table(ss, [i \in 1..n |-> i], vs)

\* The example series in one group, in any time order.
ExampleInit ==
    /\ o_target = "ref_SBP"
    /\ \E ts \in TimeOrders(Len(ExampleSBP)) :
           o_df = Table([i \in 1..Len(ExampleSBP) |-> 1], ts, ExampleSBP)

\* A long group of steady readings with up to two spikes, followed by the
\* rows of a second subject; times ascending or descending with the rows.
LongInit ==
    /\ o_target = "ref_SBP"
    /\ \E n \in 0..MaxGroupRows : \E p1, p2 \in 0..n : \E s1, s2 \in SpikeValues :
       \E other \in OtherGroups : \E descending \in BOOLEAN :
           LET total == n + Len(other)
               vs == [i \in 1..total |->
                         IF i > n THEN other[i - n]
                         ELSE IF i = p1 THEN s1
                         ELSE IF i = p2 THEN s2
                         ELSE BaseValue]
               ss == [i \in 1..total |-> IF i > n THEN 2 ELSE 1]
               ts == [i \in 1..total |-> IF descending THEN total + 1 - i ELSE i]
           IN  o_df = Table(ss, ts, vs)

OutlierInit ==
    /\ o_pc = "start"
    /\ o_time_col \in BOOLEAN
    /\ (ProbeInit \/ ExampleInit \/ LongInit)
    /\ o_prev = o_df
    /\ o_clean = o_df

\* df_clean = df.copy(); stage 0
RemoveZeros ==
    /\ o_pc = "start"
    /\ o_prev' = o_clean
    /\ o_clean' = ZeroStage(o_clean)
    /\ o_pc' = "zero"
    /\ UNCHANGED <<o_df, o_target, o_time_col, notOutlier>>

\* stage 1
RemoveOutOfRange ==
    /\ o_pc = "zero"
    /\ o_prev' = o_clean
    /\ o_clean' = RangeStage(o_clean, o_target)
    /\ o_pc' = "range"
    /\ UNCHANGED <<o_df, o_target, o_time_col, notOutlier>>

\* stage 2
RemoveZScoreOutliers ==
    /\ o_pc = "range"
    /\ o_prev' = o_clean
    /\ o_clean' = ZScoreStage(o_clean)
    /\ o_pc' = "zscore"
    /\ UNCHANGED <<o_df, o_target, o_time_col, notOutlier>>

\* stage 3, and the return
RemoveTemporalOutliers ==
    /\ o_pc = "zscore"
    /\ o_prev' = o_clean
    /\ o_clean' = TemporalStage(o_clean, o_time_col)
    /\ o_pc' = "done"
    /\ UNCHANGED <<o_df, o_target, o_time_col, notOutlier>>

OutlierNext ==
    \/ RemoveZeros
    \/ RemoveOutOfRange
    \/ RemoveZScoreOutliers
    \/ RemoveTemporalOutliers

\* The remove_outliers variables while another component is exercised.
OutlierIdle ==
    /\ o_pc = "idle"
    /\ o_df = <<>>
    /\ o_target = "none"
    /\ o_time_col = FALSE
    /\ o_prev = <<>>
    /\ o_clean = <<>>

\* ---- claims about remove_outliers ----

\* Values of the rows of a table that belong to one subject (read off the
\* table directly, for the statements below).
GroupValues(rows, subject_id) ==
    LET RECURSIVE pick(_)
        pick(k) == IF k > Len(rows) THEN <<>>
                   ELSE IF rows[k].subject_id = subject_id
                        THEN <<rows[k].value>> \o pick(k + 1)
                   ELSE pick(k + 1)
    IN  pick(1)

\* Whether a finite value lies in the target's physiological range.
Physiological(target_col, v) ==
    IF target_col = "ref_SBP" THEN 60 <= v /\ v <= 200 ELSE 40 <= v /\ v <= 150

\* C8: every row remove_outliers returns is inside [60, 200] (SBP) or
\* [40, 150] (DBP); the range stage removes a row only if its value is
\* outside; the series [70, 72, 71, 500, 73] of one group comes back as the
\* four rows 70, 72, 71, 73, with or without a time column.
C8_RangeAndExample ==
    /\ o_pc = "done" =>
           \A k \in 1..Len(o_clean) : Physiological(o_target, o_clean[k].value)
    /\ o_pc = "range" =>
           \A i \in 1..Len(o_prev) :
               o_prev[i].id \notin RowIds(o_clean)
                   => ~Physiological(o_target, o_prev[i].value)
    /\ (o_pc = "done" /\ Column(o_df, "value") = ExampleSBP
            /\ \A i \in 1..Len(o_df) : o_df[i].subject_id = 1) =>
           /\ Len(o_clean) = 4
           /\ RowIds(o_clean) = {1, 2, 3, 5}
           /\ \A k \in 1..Len(o_clean) : o_clean[k].value = ExampleSBP[o_clean[k].id]

\* C8 witness: the example series with a time column in which the 500
\* sample is neither first nor last; it alone is gone at the end.
C8_Witness ==
    /\ o_pc = "done"
    /\ o_time_col
    /\ Column(o_df, "value") = ExampleSBP
    /\ o_df[4].time = 3
    /\ o_df[1].time = 5
    /\ RowIds(o_clean) = {1, 2, 3, 5}

\* C9: the z-score stage removes a row of group g iff g has at least 3
\* rows, a standard deviation > 0 and |value - mean_g| / std_g > 3.0, mean
\* and std taken over g's rows only (so no other group's values matter).
C9_ZScorePerGroup ==
    o_pc = "zscore" =>
        \A i \in 1..Len(o_prev) :
            LET g == GroupValues(o_prev, o_prev[i].subject_id)
            IN  (o_prev[i].id \notin RowIds(o_clean))
                    <=> (Len(g) >= 3 /\ ZScoreExceeds(o_prev[i].value, g))

\* C9 witness: the stage removed a spike from the long group while a second
\* group of fewer than 3 rows with different values kept all its rows.
C9_Witness ==
    /\ o_pc = "zscore"
    /\ \E i \in 1..Len(o_prev) :
           o_prev[i].subject_id = 1 /\ o_prev[i].id \notin RowIds(o_clean)
    /\ GroupValues(o_prev, 2) = <<70, 130>>
    /\ GroupValues(o_clean, 2) = <<70, 130>>

\* C27: the z-score stage removes no row of a group of 10 rows or fewer,
\* whatever its values; only groups of 11 rows or more can lose a row to it.
C27_SmallGroupsKeepEveryRow ==
    o_pc = "zscore" =>
        \A s \in Subjects :
            Len(GroupValues(o_prev, s)) <= 10 =>
                \A i \in 1..Len(o_prev) :
                    o_prev[i].subject_id = s => o_prev[i].id \in RowIds(o_clean)

\* C27 witness: a group of 10 rows with one spike has passed the z-score
\* stage whole.
C27_Witness ==
    /\ o_pc = "zscore"
    /\ Len(GroupValues(o_prev, 1)) = 10
    /\ Cardinality({i \in 1..Len(o_prev) :
                        o_prev[i].subject_id = 1 /\ o_prev[i].value # BaseValue}) = 1
    /\ GroupValues(o_clean, 1) = GroupValues(o_prev, 1)

\* C11: every stage of remove_outliers leaves the caller's table as it was
\* and returns rows of the table it was given (so the row count never
\* grows), and every row of df_clean is a row of the caller's table with
\* the target value it had there.
C11_StagesOnlyRemoveRows ==
    [][/\ o_df' = o_df
       /\ RowIds(o_clean') \subseteq RowIds(o_clean)
       /\ Len(o_clean') <= Len(o_clean)
       /\ \A k \in 1..Len(o_clean') : \E i \in 1..Len(o_df') : o_clean'[k] = o_df'[i]
       /\ \A k, l \in 1..Len(o_clean') : k # l => o_clean'[k].id # o_clean'[l].id]_vars

\* C11 witness: all four stages have run, the temporal stage has sorted the
\* rows into another order and removed one, and rows remain.
C11_Witness ==
    /\ o_pc = "done"
    /\ Len(o_clean) < Len(o_prev)
    /\ Len(o_clean) > 1
    /\ o_clean[1].id > o_clean[Len(o_clean)].id

(***************************************************************************)
(* 5. remove_outliers_from_beats (run_full_pipeline.py 125-207)           *)
(*    A table is a sequence of rows [id, adjusted_time_s, SBP, DBP].      *)
(***************************************************************************)

BeatColumns == <<"SBP", "DBP">>

\* df.dropna(subset=["SBP", "DBP"])
DropNaBeats(df) ==
    SelectRows(df, [i \in 1..Len(df) |-> df[i].SBP # NaN /\ df[i].DBP # NaN])

\* The table with column col set to NaN in the rows of `flagged`.
SetNaNBeats(df, col, flagged) ==
    [i \in 1..Len(df) |-> IF i \in flagged THEN [df[i] EXCEPT ![col] = NaN] ELSE df[i]]

\* Stage 1 (lines 144-152): both columns inside their range.
BeatsRangeStage(df) ==
    SelectRows(df, [i \in 1..Len(df) |->
        InRange("ref_SBP", df[i].SBP) /\ InRange("ref_DBP", df[i].DBP)])

\* Lines 160-169 for one column: mean and std over the whole column.
BeatsZScoreColumn(df, col) ==
    SetNaNBeats(df, col,
        {i \in 1..Len(df) : ZScoreExceeds(df[i][col], Column(df, col))})

\* Stage 2 (lines 157-172): SBP, then DBP, then the rows with a NaN go.
BeatsZScoreStage(df) ==
    IF Len(df) >= MIN_GROUP_ROWS
    THEN DropNaBeats(BeatsZScoreColumn(BeatsZScoreColumn(df, "SBP"), "DBP"))
    ELSE df

\* The loop of lines 186-196 over one column, from row i on.  values was
\* taken from the frame before the loop (std_val too); when it is a view of
\* the frame (view), the NaN written for row i - 1 is what prev_val reads.
RECURSIVE TemporalLoop(_, _, _, _)
TemporalLoop(values, i, flagged, view) ==
    IF i > Len(values) - 1 THEN flagged
    ELSE LET prev_val == IF view /\ (i - 1) \in flagged THEN NaN ELSE values[i - 1]
             hit == TemporalExceeds(prev_val, values[i], values[i + 1], values)
         IN  TemporalLoop(values, i + 1,
                          IF hit THEN flagged \cup {i} ELSE flagged, view)

\* Lines 179-196 for one column: skipped when the std is 0.
BeatsTemporalColumn(df, col, view) ==
    LET values == Column(df, col)
    IN  IF ScaledVariance(values) = 0 THEN df
        ELSE SetNaNBeats(df, col, TemporalLoop(values, 2, {}, view))

\* Stage 3 (lines 174-200)
BeatsTemporalStage(df, view) ==
    IF Len(df) >= MIN_GROUP_ROWS
    THEN LET sorted == SortRowsBy(df, Column(df, "adjusted_time_s"))
             marked == BeatsTemporalColumn(
                           BeatsTemporalColumn(sorted, "SBP", view), "DBP", view)
         IN  IF marked # sorted THEN DropNaBeats(marked) ELSE sorted
    ELSE df

\* ---- the tables the model feeds to remove_outliers_from_beats ----

\* Most beats of a table.
MaxBeatSeries == 9

\* Steady readings.
BaseSBP == 100

BaseDBP == 80

\* SBP spikes: below and above the steady value, and one out of range.
SpikeSBP == {70, 130, 250}

\* DBP spike.
SpikeDBP == 110

\* Steady beats in time order (as load_and_trim_beats hands them over, no
\* NaN, no zero) with up to two SBP spikes and up to one DBP spike.
BeatsOutlierInit ==
    /\ b_pc = "start"
    /\ \E n \in 0..MaxBeatSeries : \E p1, p2, q \in 0..n : \E s1, s2 \in SpikeSBP :
           b_df = [i \in 1..n |->
                      [id |-> i, adjusted_time_s |-> i,
                       SBP |-> IF i = p1 THEN s1 ELSE IF i = p2 THEN s2 ELSE BaseSBP,
                       DBP |-> IF i = q THEN SpikeDBP ELSE BaseDBP]]
    /\ b_prev = b_df
    /\ b_clean = b_df
    /\ b_view = FALSE

\* df_clean = df.copy(); stage 1
BeatsRemoveOutOfRange ==
    /\ b_pc = "start"
    /\ b_prev' = b_clean
    /\ b_clean' = BeatsRangeStage(b_clean)
    /\ b_pc' = "range"
    /\ UNCHANGED <<b_df, b_view, notBeats>>

\* stage 2
BeatsRemoveZScoreOutliers ==
    /\ b_pc = "range"
    /\ b_prev' = b_clean
    /\ b_clean' = BeatsZScoreStage(b_clean)
    /\ b_pc' = "zscore"
    /\ UNCHANGED <<b_df, b_view, notBeats>>

\* stage 3, and the return.  Whether df_clean[col].values shares memory with
\* the frame that .loc writes to is decided by the pandas build (a view
\* without copy-on-write, a detached array with it): both are taken.
BeatsRemoveTemporalOutliers ==
    /\ b_pc = "zscore"
    /\ \E view \in BOOLEAN :
           /\ b_view' = view
           /\ b_clean' = BeatsTemporalStage(b_clean, view)
    /\ b_prev' = b_clean
    /\ b_pc' = "done"
    /\ UNCHANGED <<b_df, notBeats>>

BeatsNext ==
    \/ BeatsRemoveOutOfRange
    \/ BeatsRemoveZScoreOutliers
    \/ BeatsRemoveTemporalOutliers

\* The remove_outliers_from_beats variables while another component runs.
BeatsIdle ==
    /\ b_pc = "idle"
    /\ b_df = <<>>
    /\ b_prev = <<>>
    /\ b_clean = <<>>
    /\ b_view = FALSE

\* ---- claims about the temporal-neighbor stage ----

\* Whether row i of a time-sorted table deviates from the mean of its two
\* neighbours by more than 3 std of the column, all three values and the
\* std being those of the table as it entered the stage.
DeviatesFromNeighbours(rows, col, i) ==
    LET vals == Column(rows, col)
    IN  /\ 1 < i /\ i < Len(rows)
        /\ TemporalExceeds(vals[i - 1], vals[i], vals[i + 1], vals)

\* C10 (as stated), for remove_outliers_from_beats: an interior beat is
\* removed by the temporal stage iff it deviates from its neighbours' mean
\* by more than 3 std, the neighbours being the values that survived the
\* z-score stage, frozen before the stage starts; the first and the last
\* beat are never removed.
C10_TemporalFrozenNeighbours ==
    (b_pc = "done" /\ Len(b_prev) >= 3) =>
        \A i \in 1..Len(b_prev) :
            (b_prev[i].id \notin RowIds(b_clean))
                <=> \E c \in 1..Len(BeatColumns) :
                        DeviatesFromNeighbours(b_prev, BeatColumns[c], i)

\* ---- claims C26, C28 (the reference built from a beats table) ----

\* The SBP or DBP column of the beats as np.interp puts it on the
\* resampling grid (lines 291-297, 304-310), before the filter.
ResampledBeforeFilter(col) ==
    NpInterpAll(i_grid, Column(i_beats, "adjusted_time_s"), Column(i_beats, col))

\* C26: with the pipeline's constants every resampled SBP and DBP series of
\* at least 5 finite samples leaves apply_antialiasing_filter by the branch
\* that designs the Butterworth filter and runs it forward and backward.
C26_ResampledSeriesFiltered ==
    (i_pc = "done_beats" /\ i_grid # <<>>) =>
        \A col \in {"SBP", "DBP"} :
            ValidCount(ResampledBeforeFilter(col)) >= 5 =>
                FilterPath(ResampledBeforeFilter(col), RESAMPLE_RATE_HZ,
                           ANTIALIAS_CUTOFF_HZ, DEFAULT_FILTER_ORDER) = "filtered"

\* C28: every ref_SBP and ref_DBP that is not NaN lies within the
\* physiological range of its column and between the smallest and the
\* largest beat value of that column.
C28_ReferenceWithinBeatValues ==
    (i_pc = "done_beats" /\ i_beats # <<>>) =>
        \A k \in 1..Len(i_ref) :
            /\ i_ref[k].ref_SBP # NaN =>
                   /\ SBP_MIN <= i_ref[k].ref_SBP /\ i_ref[k].ref_SBP <= SBP_MAX
                   /\ ArrMin(Column(i_beats, "SBP")) <= i_ref[k].ref_SBP
                   /\ i_ref[k].ref_SBP <= ArrMax(Column(i_beats, "SBP"))
            /\ i_ref[k].ref_DBP # NaN =>
                   /\ DBP_MIN <= i_ref[k].ref_DBP /\ i_ref[k].ref_DBP <= DBP_MAX
                   /\ ArrMin(Column(i_beats, "DBP")) <= i_ref[k].ref_DBP
                   /\ i_ref[k].ref_DBP <= ArrMax(Column(i_beats, "DBP"))

\* C28 witness: beats of different pressures, a target time between two
\* grid times and one after the last beat but not after the grid, both
\* with a reference value.
C28_Witness ==
    /\ i_pc = "done_beats"
    /\ Len(i_grid) >= 2
    /\ ArrMin(Column(i_beats, "SBP")) < ArrMax(Column(i_beats, "SBP"))
    /\ \E k \in 1..Len(i_times) :
           /\ ~(\E g \in 1..Len(i_grid) : i_grid[g] = i_times[k])
           /\ i_ref[k].ref_SBP # NaN
           /\ i_ref[k].ref_SBP > ArrMin(Column(i_beats, "SBP"))
           /\ i_ref[k].ref_SBP < ArrMax(Column(i_beats, "SBP"))

(***************************************************************************)
(* 6. aggregate_by_time_windows (train_bp_models.py 375-426)               *)
(*    A mean is kept exact, as the pair [num, den] of the sum and the      *)
(*    count of the averaged values; a value returned as it was passed is   *)
(*    [num |-> value, den |-> 1].                                          *)
(***************************************************************************)

\* The factor between time_unit "milliseconds" and seconds (lines 396, 398).
MS_PER_SECOND == 1000

\* An array returned as it was passed (the early returns, lines 381, 389).
AsPassed(a) == [i \in 1..Len(a) |-> [num |-> a[i], den |-> 1]]

\* valid_mask = ~np.isnan(time_arr) & np.isfinite(y_true_arr)
\*              & np.isfinite(y_pred_arr)
AggValidMask(time_arr, y_true_arr, y_pred_arr) ==
    [i \in 1..Len(time_arr) |->
        time_arr[i] # NaN /\ IsFinite(y_true_arr[i]) /\ IsFinite(y_pred_arr[i])]

\* What time_arr is divided by to give seconds (lines 395-398).
SecondsDivisor(time_arr, time_unit) ==
    IF time_unit = "milliseconds" THEN MS_PER_SECOND
    ELSE IF time_unit = "auto" /\ ArrMax(time_arr) > MS_PER_SECOND THEN MS_PER_SECOND
    ELSE 1

\* np.floor((t / divisor) / window_seconds).astype(int)
WindowId(t, divisor, window_seconds) == t \div (divisor * window_seconds)

\* The members of a finite set of integers in ascending order.
RECURSIVE AscendingOf(_)
AscendingOf(S) ==
    IF S = {} THEN <<>>
    ELSE LET m == CHOOSE x \in S : \A y \in S : x <= y
         IN  <<m>> \o AscendingOf(S \ {m})

\* A wrong aggregation: each window reports its first sample.
GroupFirsts(rows) ==
    LET ids == AscendingOf({rows[i].window_id : i \in 1..Len(rows)})
        first(w) == rows[CHOOSE i \in 1..Len(rows) :
                            /\ rows[i].window_id = w
                            /\ \A j \in 1..(i - 1) : rows[j].window_id # w]
    IN  [k \in 1..Len(ids) |->
            [window_id |-> ids[k],
             y_true |-> [num |-> first(ids[k]).y_true, den |-> 1],
             y_pred |-> [num |-> first(ids[k]).y_pred, den |-> 1]]]

\* groupby("window_id", sort=True)[[...]].mean(): one row per window id,
\* ascending, with the sum and the count of each column.
GroupMeans(rows) ==
    LET ids == AscendingOf({rows[i].window_id : i \in 1..Len(rows)})
        members(w) == SelectRows(rows, [i \in 1..Len(rows) |-> rows[i].window_id = w])
    IN  [k \in 1..Len(ids) |->
            [window_id |-> ids[k],
             y_true |-> [num |-> SumSeq(Column(members(ids[k]), "y_true")),
                         den |-> Len(members(ids[k]))],
             y_pred |-> [num |-> SumSeq(Column(members(ids[k]), "y_pred")),
                         den |-> Len(members(ids[k]))]]]

\* The whole function; has_time is FALSE when time_values is None, and a
\* window_seconds of None or <= 0 is passed as 0.
AggregateByTimeWindows(y_true, y_pred, has_time, time_values, window_seconds, time_unit) ==
    LET as_passed  == [y_true |-> AsPassed(y_true), y_pred |-> AsPassed(y_pred)]
        valid_mask == AggValidMask(time_values, y_true, y_pred)
        time_arr   == SelectRows(time_values, valid_mask)
        y_true_arr == SelectRows(y_true, valid_mask)
        y_pred_arr == SelectRows(y_pred, valid_mask)
        divisor    == SecondsDivisor(time_arr, time_unit)
        samples    == [i \in 1..Len(time_arr) |->
                          [time |-> time_arr[i], y_true |-> y_true_arr[i],
                           y_pred |-> y_pred_arr[i],
                           window_id |-> WindowId(time_arr[i], divisor, window_seconds)]]
        \* np.argsort(time_arr), lines 401-404
        by_time    == SortRowsBy(samples, [i \in 1..Len(samples) |-> samples[i].time])
        \* sort_values(["window_id", "time"]), line 418: the second key is
        \* already in order, a stable sort on the first one does it
        df_tmp     == SortRowsBy(by_time, [i \in 1..Len(by_time) |-> by_time[i].window_id])
        agg        == GroupMeans(df_tmp)
        sorted_agg == SortRowsBy(agg, [k \in 1..Len(agg) |-> agg[k].window_id])
    IN  IF ~has_time \/ window_seconds <= 0 THEN as_passed
        ELSE IF \A i \in 1..Len(valid_mask) : ~valid_mask[i] THEN as_passed
        ELSE [y_true |-> Column(sorted_agg, "y_true"),
              y_pred |-> Column(sorted_agg, "y_pred")]

\* ---- the calls the model makes of aggregate_by_time_windows ----

\* Most samples of a probe call.
MaxSamples == 2

\* Times before zero, in the windows 0 and 1 of a 10 s window, and a
\* millisecond timestamp; NaN for a missing time.
AggTimes == {NaN, -5, 3, 12, 12000}

AggTrue == {NaN, 10, 30}

AggPred == {NaN, 11}

\* window_seconds: the default 0.0 of --window_seconds, and 10 s.
AggWindows == {0, 10}

\* The units main passes (lines 787-797).
TimeUnits == {"seconds", "milliseconds"}

\* The fold of the specification's example.
ExampleTimes == <<3, 1, 2>>

ExampleTrue == <<30, 10, 20>>

ExamplePred == <<31, 11, 21>>

AggProbeInit ==
    /\ a_has_time = TRUE
    /\ \E n \in 0..MaxSamples :
           /\ a_time \in [1..n -> AggTimes]
           /\ a_true \in [1..n -> AggTrue]
           /\ a_pred \in [1..n -> AggPred]

AggExampleInit ==
    /\ a_has_time = TRUE
    /\ a_time = ExampleTimes
    /\ a_true = ExampleTrue
    /\ a_pred = ExamplePred

\* time_values is None
AggNoTimeInit ==
    /\ a_has_time = FALSE
    /\ a_time = <<>>
    /\ \E n \in 0..MaxSamples :
           /\ a_true \in [1..n -> AggTrue]
           /\ a_pred \in [1..n -> AggPred]

AggInit ==
    /\ a_pc = "start"
    /\ a_window \in AggWindows
    /\ a_unit \in TimeUnits
    /\ (AggProbeInit \/ AggExampleInit \/ AggNoTimeInit)
    /\ a_out = [y_true |-> <<>>, y_pred |-> <<>>]

Aggregate ==
    /\ a_pc = "start"
    /\ a_out' = AggregateByTimeWindows(a_true, a_pred, a_has_time, a_time,
                                       a_window, a_unit)
    /\ a_pc' = "done"
    /\ UNCHANGED <<a_has_time, a_time, a_true, a_pred, a_window, a_unit, notAgg>>

AggNext == Aggregate

\* The aggregate_by_time_windows variables while another component runs.
AggIdle ==
    /\ a_pc = "idle"
    /\ a_has_time = FALSE
    /\ a_time = <<>>
    /\ a_true = <<>>
    /\ a_pred = <<>>
    /\ a_window = 0
    /\ a_unit = "none"
    /\ a_out = [y_true |-> <<>>, y_pred |-> <<>>]

\* ---- claims about aggregate_by_time_windows ----

\* Positions of the call's samples that pass the validity test: the time is
\* not NaN and both values are finite.
AggValidPositions ==
    {i \in 1..Len(a_time) : a_time[i] # NaN /\ a_true[i] # NaN /\ a_pred[i] # NaN}

\* The window of sample i: floor(time in seconds / window_seconds).
WindowOf(i) ==
    IF a_unit = "milliseconds" THEN a_time[i] \div (1000 * a_window)
    ELSE a_time[i] \div a_window

\* The window indices that hold a valid sample, ascending.
ValidWindows == AscendingOf({WindowOf(i) : i \in AggValidPositions})

\* Sum of a[i] over the positions in S.
RECURSIVE SumOver(_, _)
SumOver(a, S) ==
    IF S = {} THEN 0
    ELSE LET i == CHOOSE x \in S : TRUE IN a[i] + SumOver(a, S \ {i})

\* C12: with window_seconds > 0 and a time array, every returned value is
\* the mean of a non-empty set of valid samples, and the result is the one
\* the call gives with the invalid samples deleted from its input -- also
\* when no sample is valid (nothing is returned then).
C12_OnlyValidSamples ==
    (a_pc = "done" /\ a_has_time /\ a_window > 0) =>
        LET keep == [i \in 1..Len(a_time) |-> i \in AggValidPositions]
        IN  /\ \A k \in 1..Len(a_out.y_true) : a_out.y_true[k].num # NaN
            /\ \A k \in 1..Len(a_out.y_pred) : a_out.y_pred[k].num # NaN
            /\ AggValidPositions = {} => a_out = [y_true |-> <<>>, y_pred |-> <<>>]
            /\ a_out = AggregateByTimeWindows(SelectRows(a_true, keep),
                                              SelectRows(a_pred, keep), TRUE,
                                              SelectRows(a_time, keep),
                                              a_window, a_unit)

\* C13: with window_seconds > 0 and a time array, the result has one pair
\* per window that holds a valid sample, in ascending window order, the
\* pair being the means of true and of pred over the valid samples with
\* floor(time / window_seconds) equal to that window; and every permutation
\* of the input triples gives the same result.
C13_OnePairPerWindow ==
    (a_pc = "done" /\ a_has_time /\ a_window > 0) =>
        /\ Len(a_out.y_true) = Len(ValidWindows)
        /\ Len(a_out.y_pred) = Len(ValidWindows)
        /\ \A k \in 1..Len(ValidWindows) :
               LET members == {i \in AggValidPositions : WindowOf(i) = ValidWindows[k]}
               IN  /\ a_out.y_true[k] = [num |-> SumOver(a_true, members),
                                         den |-> Cardinality(members)]
                   /\ a_out.y_pred[k] = [num |-> SumOver(a_pred, members),
                                         den |-> Cardinality(members)]
        /\ \A f \in TimeOrders(Len(a_time)) :
               a_out = AggregateByTimeWindows([i \in 1..Len(a_time) |-> a_true[f[i]]],
                                              [i \in 1..Len(a_time) |-> a_pred[f[i]]],
                                              TRUE,
                                              [i \in 1..Len(a_time) |-> a_time[f[i]]],
                                              a_window, a_unit)

\* The call of the specification's example.
ExampleCall ==
    /\ a_pc = "done"
    /\ a_has_time
    /\ a_time = ExampleTimes /\ a_true = ExampleTrue /\ a_pred = ExamplePred
    /\ a_window = 10
    /\ a_unit = "seconds"

\* C14 as stated: times=[3,1,2], true=[30,10,20], pred=[31,11,21],
\* window_s=10 gives one window with true_agg = [20] and pred_agg = [20.33]
\* to two decimals.
C14_ExampleAsStated ==
    ExampleCall =>
        /\ Len(a_out.y_true) = 1 /\ Len(a_out.y_pred) = 1
        /\ a_out.y_true[1].num = 20 * a_out.y_true[1].den
        /\ Abs(100 * a_out.y_pred[1].num - 2033 * a_out.y_pred[1].den)
               <= a_out.y_pred[1].den

\* C14: the same call gives one window with true_agg = [20] and
\* pred_agg = [21], the mean of 31, 11 and 21.
C14_Example ==
    ExampleCall =>
        /\ Len(a_out.y_true) = 1 /\ Len(a_out.y_pred) = 1
        /\ a_out.y_true[1].num = 20 * a_out.y_true[1].den
        /\ a_out.y_pred[1].num = 21 * a_out.y_pred[1].den

\* C14 witness: the example call has returned its single window of three
\* samples.
C14_Witness ==
    /\ ExampleCall
    /\ Len(a_out.y_true) = 1
    /\ a_out.y_true[1].den = 3

(***************************************************************************)
(* 7. eval_one_method (train_bp_models.py 428-733) and the part of main    *)
(*    that prepares its arguments (852-866).                               *)
(*    A table is a sequence of rows                                        *)
(*      [id, subject_id, time, M1_A, M1_HR, target];                       *)
(*    positions of a table are numbered from 1.  The regression itself is  *)
(*    not part of this section: a fold records which rows it was fitted    *)
(*    and tested on.                                                       *)
(***************************************************************************)

\* The feature columns of the method being evaluated.
FeatureCols == <<"M1_A", "M1_HR">>

\* A wrong mask: one observed feature is enough.
EvalValidMaskAny(df, feature_cols) ==
    [i \in 1..Len(df) |-> \E c \in 1..Len(feature_cols) : df[i][feature_cols[c]] # NaN]

\* valid_mask = df[feature_cols].notna().all(axis=1)     (line 454)
EvalValidMask(df, feature_cols) ==
    [i \in 1..Len(df) |-> \A c \in 1..Len(feature_cols) : df[i][feature_cols[c]] # NaN]

\* The result returned when no row is left (lines 459-473).
UndefinedResult ==
    [mape_mean |-> Inf,
     mape_each_fold |-> <<>>,
     coef_each_fold |-> <<>>,
     intercept_each_fold |-> <<>>,
     scaler_stats_each_fold |-> <<>>,
     all_y_true |-> <<>>,
     all_y_pred |-> <<>>]

\* The distinct values of the groups array.
UniqueGroups(groups) == {groups[i] : i \in 1..Len(groups)}

\* np.bincount: how many rows a group has.
GroupSize(groups, g) == Cardinality({i \in 1..Len(groups) : groups[i] = g})

\* The orders np.argsort(n_samples_per_group)[::-1] can give: the groups by
\* descending size, groups of equal size in an order the sort is free to
\* choose.
SizeOrders(groups) ==
    LET U == UniqueGroups(groups)
        n == Cardinality(U)
    IN  {o \in [1..n -> U] :
            /\ \A a, b \in 1..n : a # b => o[a] # o[b]
            /\ \A a \in 1..(n - 1) :
                   GroupSize(groups, o[a]) >= GroupSize(groups, o[a + 1])}

\* GroupKFold._iter_test_indices: each group in turn goes to the fold that
\* is lightest so far (np.argmin: the first of the lightest).  The result
\* maps a group to its fold, folds numbered from 1.
RECURSIVE AssignGroups(_, _, _, _, _)
AssignGroups(groups, order, k, weights, group_to_fold) ==
    IF k > Len(order) THEN group_to_fold
    ELSE LET lightest == CHOOSE f \in 1..Len(weights) :
                             /\ \A h \in 1..Len(weights) : weights[f] <= weights[h]
                             /\ \A h \in 1..(f - 1) : weights[h] > weights[f]
             g == order[k]
         IN  AssignGroups(groups, order, k + 1,
                          [weights EXCEPT ![lightest] = @ + GroupSize(groups, g)],
                          [group_to_fold EXCEPT ![g] = lightest])

\* A wrong splitter: rows are dealt to the folds one by one, whatever their
\* group (the order argument is not used).
KFoldByRow(groups, n_splits, order) ==
    [f \in 1..n_splits |->
        [train |-> AscendingOf({i \in 1..Len(groups) : (i % n_splits) + 1 # f}),
         test  |-> AscendingOf({i \in 1..Len(groups) : (i % n_splits) + 1 = f})]]

\* GroupKFold(n_splits).split(df_clean, groups): the (train, test) index
\* arrays of every fold, for n_splits <= number of groups.
GroupKFoldSplits(groups, n_splits, order) ==
    LET U == UniqueGroups(groups)
        group_to_fold == AssignGroups(groups, order, 1,
                                      [f \in 1..n_splits |-> 0], [g \in U |-> 0])
    IN  [f \in 1..n_splits |->
            [train |-> AscendingOf({i \in 1..Len(groups) : group_to_fold[groups[i]] # f}),
             test  |-> AscendingOf({i \in 1..Len(groups) : group_to_fold[groups[i]] = f})]]

\* A wrong splitter: a fold trains on every row outside its test block.
TimeSeriesSplitsAround(n_samples, n_splits) ==
    LET test_size == n_samples \div (n_splits + 1)
        start(k)  == n_samples - n_splits * test_size + (k - 1) * test_size
    IN  [k \in 1..n_splits |->
            [train |-> AscendingOf((1..n_samples) \ ((start(k) + 1)..(start(k) + test_size))),
             test  |-> AscendingOf((start(k) + 1)..(start(k) + test_size))]]

\* TimeSeriesSplit(n_splits).split(df_clean) with the default test_size and
\* gap, for n_splits + 1 <= n_samples: fold k tests the k-th of the last
\* n_splits blocks of n_samples // (n_splits + 1) rows and trains on all
\* rows before it.
TimeSeriesSplits(n_samples, n_splits) ==
    LET test_size == n_samples \div (n_splits + 1)
        start(k)  == n_samples - n_splits * test_size + (k - 1) * test_size
    IN  [k \in 1..n_splits |->
            [train |-> AscendingOf(1..start(k)),
             test  |-> AscendingOf((start(k) + 1)..(start(k) + test_size))]]

\* ~(np.isnan(X).any(axis=1) | np.isnan(y)) for one row   (lines 514-515)
FoldRowValid(row) ==
    row.M1_A # NaN /\ row.M1_HR # NaN /\ row.target # NaN

\* Whether scikit-learn's input validation rejects a row (infinity in X).
HasInfinity(row) == row.M1_A = Inf \/ row.M1_HR = Inf

\* Stands for any finite value of a metric or of a prediction: the
\* regression that produces it is outside this section.
SomeFinite == 0

\* Lines 453-497 for a table with valid rows: the state after the splitter
\* is built, or "raised".
SplitterRaises(strategy, groups_given, time_col, n_splits) ==
    \/ strategy = "groupkfold" /\ ~groups_given      \* assert, line 483
    \/ strategy = "timeseries" /\ ~time_col          \* raise, line 488
    \/ n_splits < 2                                  \* GroupKFold / TimeSeriesSplit constructor

\* Whether the first next() on split_iter raises: more folds asked for than
\* there are groups (GroupKFold) or rows to cut them from (TimeSeriesSplit).
SplitRaises(strategy, clean, n_splits) ==
    IF strategy = "groupkfold"
    THEN n_splits > Cardinality(UniqueGroups(Column(clean, "subject_id")))
    ELSE n_splits + 1 > Len(clean)

\* The rows of df_clean at the positions idx, in that order.
RowsAt(clean, idx) == [k \in 1..Len(idx) |-> clean[idx[k]]]

\* The rows of a slice that pass the per-fold NaN check (lines 514-524).
FoldValidRows(rows) == SelectRows(rows, [k \in 1..Len(rows) |-> FoldRowValid(rows[k])])

\* pipe.fit / pipe.predict reject infinity in X.
FitRaises(train_rows, test_rows) ==
    \/ \E k \in 1..Len(train_rows) : HasInfinity(train_rows[k])
    \/ \E k \in 1..Len(test_rows) : HasInfinity(test_rows[k])

\* Lines 655-658: y_te and y_hat come from the rows that passed the NaN
\* check, time_all[test_idx] from all rows of the test slice; arrays of
\* different lengths make aggregate_by_time_windows raise.
AggregationApplies(time_col, window_seconds) == time_col /\ window_seconds > 0

\* eval_y_true of a fold (y_hat is finite whenever the fit succeeded, so it
\* does not decide which samples are valid).
EvalYTrue(test_rows, time_col, window_seconds) ==
    IF AggregationApplies(time_col, window_seconds)
    THEN AggregateByTimeWindows(Column(test_rows, "target"), Column(test_rows, "target"),
                                TRUE, Column(test_rows, "time"),
                                window_seconds, "seconds").y_true
    ELSE AsPassed(Column(test_rows, "target"))

\* A wrong slice: the fit sees the test rows too.
SliceOfAllRows(clean, split) == FoldValidRows(RowsAt(clean, split.train \o split.test))

\* X_tr, y_tr of a fold: the rows at train_idx that pass the NaN check
\* (lines 510-511, 514, 521-522).
TrainSlice(clean, split) == FoldValidRows(RowsAt(clean, split.train))

\* X_te, y_te of a fold (lines 510-511, 515, 523-524).
TestSlice(clean, split) == FoldValidRows(RowsAt(clean, split.test))

\* StandardScaler.fit(X_tr) inside pipe.fit (line 575): per feature column
\* mean_ and var_, the population variance; scale_ is the square root of
\* var_, and 1 for a column of variance 0.
ScalerStats(train_rows, feature_cols) ==
    [c \in 1..Len(feature_cols) |->
        LET x == Column(train_rows, feature_cols[c])
            n == Len(x)
            s == SumSeq(x)
            q == SumSeq([i \in 1..n |-> x[i] * x[i]])
        IN  [mean |-> Frac(s, n), var |-> Frac(n * q - s * s, n * n)]]

\* pipe.fit(X_tr, y_tr) (line 575): the fitted regression is a function of
\* the arrays it is given; it is kept as those arrays.
FittedOn(train_rows, feature_cols) ==
    [X |-> [i \in 1..Len(train_rows) |->
               [c \in 1..Len(feature_cols) |-> train_rows[i][feature_cols[c]]]],
     y |-> Column(train_rows, "target")]

\* Lines 701-715: what a fold records of its model.  coef_real[c] is
\* reg.coef_[c] / (scale_[c] + 1e-12), intercept_real is reg.intercept_
\* less the sum of coef_ * mean_ / (scale_ + 1e-12): each is kept as the
\* fit and the scaler statistics it is computed from.
FoldModel(train_rows, feature_cols) ==
    LET scaler == ScalerStats(train_rows, feature_cols)
        reg    == FittedOn(train_rows, feature_cols)
    IN  [coef |-> [c \in 1..Len(feature_cols) |->
                      [feature |-> feature_cols[c], reg |-> reg, scaler |-> scaler[c]]],
         intercept |-> [reg |-> reg, scaler |-> scaler],
         scaler_stats |-> scaler]

\* The test rows behind each evaluation pair of a fold, by row id: one
\* row per pair without aggregation, the rows of one window (lines 399-420)
\* with it.
EvalPairRows(test_rows, time_col, window_seconds) ==
    IF AggregationApplies(time_col, window_seconds)
    THEN LET times   == Column(test_rows, "time")
             divisor == SecondsDivisor(times, "seconds")
             by_time == SortRowsBy(test_rows, times)
             wid(r)  == WindowId(r.time, divisor, window_seconds)
             ids     == AscendingOf({wid(test_rows[i]) : i \in 1..Len(test_rows)})
         IN  [k \in 1..Len(ids) |->
                 Column(SelectRows(by_time, [i \in 1..Len(by_time) |->
                                                wid(by_time[i]) = ids[k]]), "id")]
    ELSE [i \in 1..Len(test_rows) |-> <<test_rows[i].id>>]

\* eval_y_pred of a fold: pipe.predict(X_te) (line 576) averaged over the
\* rows of each pair; a prediction is kept as the fold that made it and
\* the rows it is the mean over.
EvalYPred(fold, test_rows, time_col, window_seconds) ==
    LET pairs == EvalPairRows(test_rows, time_col, window_seconds)
    IN  [k \in 1..Len(pairs) |-> [fold |-> fold, rows |-> pairs[k]]]

\* A wrong result: the folds' pairs are joined last fold first.
RECURSIVE ConcatReversed(_)
ConcatReversed(folds) ==
    IF folds = <<>> THEN <<>> ELSE ConcatReversed(Tail(folds)) \o Head(folds).eval_y_true

\* all_y_true.extend(eval_y_true) fold after fold (lines 682-685).
RECURSIVE ConcatYTrue(_)
ConcatYTrue(folds) ==
    IF folds = <<>> THEN <<>> ELSE Head(folds).eval_y_true \o ConcatYTrue(Tail(folds))

\* all_y_pred.extend(eval_y_pred) fold after fold (lines 687-690).
RECURSIVE ConcatYPred(_)
ConcatYPred(folds) ==
    IF folds = <<>> THEN <<>> ELSE Head(folds).eval_y_pred \o ConcatYPred(Tail(folds))

\* The returned dictionary (lines 719-733) from the evaluated folds; a
\* fold's MAPE is kept as the arrays it is computed from.
EvalResult(folds) ==
    [mape_mean |-> IF folds = <<>> THEN NaN ELSE SomeFinite,
     mape_each_fold |-> [k \in 1..Len(folds) |->
                            [y_true |-> folds[k].eval_y_true,
                             y_pred |-> folds[k].eval_y_pred]],
     coef_each_fold |-> [k \in 1..Len(folds) |-> folds[k].coef],
     intercept_each_fold |-> [k \in 1..Len(folds) |-> folds[k].intercept],
     scaler_stats_each_fold |-> [k \in 1..Len(folds) |-> folds[k].scaler_stats],
     all_y_true |-> ConcatYTrue(folds),
     all_y_pred |-> ConcatYPred(folds)]

\* main, lines 852-857: n_splits shrunk to the number of groups of df_valid.
MainNSplits(n_splits, groups) ==
    IF Cardinality(UniqueGroups(groups)) < n_splits
    THEN Cardinality(UniqueGroups(groups))
    ELSE n_splits

\* ---- the tables and arguments the model feeds to main and eval_one_method ----

\* Most rows of a table.
MaxEvalRows == 3

EvalSubjects == {1, 2, 3}

\* What a row can look like: fully observed, a feature missing, a feature
\* infinite, the target missing.
RowKinds == {"observed", "feature_nan", "feature_inf", "target_nan"}

\* The rows main can pass on: it drops the rows without a target (line 773)
\* and remove_outliers keeps finite targets only.
MainRowKinds == {"observed", "feature_nan", "feature_inf"}

\* Row i of a table: subject, time and kind given, values distinct per row.
EvalRow(i, subject_id, time, kind) ==
    [id |-> i, subject_id |-> subject_id, time |-> time,
     M1_A |-> IF kind = "feature_nan" THEN NaN ELSE 10 + i,
     M1_HR |-> IF kind = "feature_inf" THEN Inf ELSE 60 + i,
     target |-> IF kind = "target_nan" THEN NaN ELSE 100 + i]

\* Time orders of the rows: ascending, descending, all at the same time.
TimePatterns == {"ascending", "descending", "tied"}

TimeOf(pattern, i, n) ==
    IF pattern = "ascending" THEN i
    ELSE IF pattern = "descending" THEN n + 1 - i
    ELSE 1

\* --n_splits values: below 2, as many as there are subjects, and the default 5.
NSplitsArgs == {1, 2, 3, 5}

\* A group-strategy run of main at line 852: a non-empty df_valid.
MainGroupInit ==
    /\ e_pc = "main"
    /\ e_main = TRUE
    /\ e_strategy = "groupkfold"
    /\ e_groups_given = FALSE
    /\ e_time_col = TRUE
    /\ e_window \in {0, 10}
    /\ e_n_splits \in NSplitsArgs
    /\ \E n \in 1..MaxEvalRows :
       \E ss \in [1..n -> EvalSubjects] : \E ks \in [1..n -> {"observed", "feature_nan"}] :
           e_df = [i \in 1..n |-> EvalRow(i, ss[i], i, ks[i])]

\* A time-series run of main at line 852.
MainTimeSeriesInit ==
    /\ e_pc = "main"
    /\ e_main = TRUE
    /\ e_strategy = "timeseries"
    /\ e_groups_given = FALSE
    /\ e_time_col \in BOOLEAN
    /\ e_window \in {0, 10}
    /\ e_n_splits \in {1, 2}
    /\ \E n \in 1..MaxEvalRows : \E p \in TimePatterns :
       \E ks \in [1..n -> MainRowKinds] :
           e_df = [i \in 1..n |-> EvalRow(i, 1, TimeOf(p, i, n), ks[i])]

\* eval_one_method called with a table of its own.
DirectInit ==
    /\ e_pc = "start"
    /\ e_main = FALSE
    /\ e_strategy \in {"groupkfold", "timeseries"}
    /\ e_groups_given \in BOOLEAN
    /\ e_time_col \in BOOLEAN
    /\ e_window = 10
    /\ e_n_splits = 2
    /\ \E n \in 0..MaxEvalRows : \E p \in TimePatterns :
       \E ss \in [1..n -> {1, 2}] : \E ks \in [1..n -> RowKinds] :
           e_df = [i \in 1..n |-> EvalRow(i, ss[i], TimeOf(p, i, n), ks[i])]

EvalInit ==
    /\ (MainGroupInit \/ MainTimeSeriesInit \/ DirectInit)
    /\ e_clean = <<>>
    /\ e_splits = <<>>
    /\ e_fold = 0
    /\ e_folds = <<>>
    /\ e_result = UndefinedResult

\* main, lines 852-866: the splitter arguments are prepared, or the run
\* stops because fewer than 2 folds are left.
MainPrepare ==
    /\ e_pc = "main"
    /\ LET groups   == Column(e_df, "subject_id")
           n_splits == IF e_strategy = "groupkfold"
                       THEN MainNSplits(e_n_splits, groups) ELSE e_n_splits
       IN  /\ e_n_splits' = n_splits
           /\ e_groups_given' = (e_strategy = "groupkfold")
           /\ e_pc' = IF e_strategy = "groupkfold" /\ n_splits < 2
                      THEN "stopped" ELSE "start"
    /\ e_window' = IF ~e_time_col /\ e_window > 0 THEN 0 ELSE e_window
    /\ UNCHANGED <<e_main, e_df, e_strategy, e_time_col, e_clean, e_splits,
                   e_fold, e_folds, e_result, notEval>>

\* eval_one_method, lines 453-497: the rows with a missing feature are
\* dropped; with no row left the undefined result is returned; otherwise the
\* splitter is built (and the rows sorted by time for a time-series split).
EvalStart ==
    /\ e_pc = "start"
    /\ LET df_clean == SelectRows(e_df, EvalValidMask(e_df, FeatureCols))
       IN  IF Len(df_clean) = 0
           THEN /\ e_pc' = "returned"
                /\ e_result' = UndefinedResult
                /\ e_clean' = df_clean
           ELSE IF SplitterRaises(e_strategy, e_groups_given, e_time_col, e_n_splits)
           THEN /\ e_pc' = "raised"
                /\ e_clean' = df_clean
                /\ UNCHANGED e_result
           ELSE /\ e_pc' = "split"
                /\ e_clean' = IF e_strategy = "timeseries"
                              THEN SortRowsBy(df_clean, Column(df_clean, "time"))
                              ELSE df_clean
                /\ UNCHANGED e_result
    /\ UNCHANGED <<e_main, e_df, e_strategy, e_groups_given, e_time_col, e_window,
                   e_n_splits, e_splits, e_fold, e_folds, notEval>>

\* Line 509, the first fold drawn from split_iter: the splitter yields its
\* folds or raises.
EvalSplit ==
    /\ e_pc = "split"
    /\ IF SplitRaises(e_strategy, e_clean, e_n_splits)
       THEN e_pc' = "raised" /\ UNCHANGED <<e_splits, e_fold>>
       ELSE /\ e_pc' = "folds"
            /\ e_fold' = 1
            /\ IF e_strategy = "groupkfold"
               THEN \E order \in SizeOrders(Column(e_clean, "subject_id")) :
                        e_splits' = GroupKFoldSplits(Column(e_clean, "subject_id"),
                                                     e_n_splits, order)
               ELSE e_splits' = TimeSeriesSplits(Len(e_clean), e_n_splits)
    /\ UNCHANGED <<e_main, e_df, e_strategy, e_groups_given, e_time_col, e_window,
                   e_n_splits, e_clean, e_folds, e_result, notEval>>

\* Lines 509-717 for one fold: skipped when a slice has no valid row,
\* otherwise fitted, evaluated and recorded, unless the fit or the
\* aggregation raises.
EvalFold ==
    /\ e_pc = "folds"
    /\ e_fold <= Len(e_splits)
    /\ LET test_all  == RowsAt(e_clean, e_splits[e_fold].test)
           train     == TrainSlice(e_clean, e_splits[e_fold])
           test      == TestSlice(e_clean, e_splits[e_fold])
           model     == FoldModel(train, FeatureCols)
       IN  IF Len(train) = 0 \/ Len(test) = 0
           THEN e_pc' = "folds" /\ e_fold' = e_fold + 1 /\ UNCHANGED e_folds
           ELSE IF FitRaises(train, test)
           THEN e_pc' = "raised" /\ UNCHANGED <<e_fold, e_folds>>
           ELSE IF AggregationApplies(e_time_col, e_window) /\ Len(test) # Len(test_all)
           THEN e_pc' = "raised" /\ UNCHANGED <<e_fold, e_folds>>
           ELSE /\ e_pc' = "folds"
                /\ e_fold' = e_fold + 1
                /\ e_folds' = Append(e_folds,
                       [fold |-> e_fold,
                        train |-> Column(train, "id"),
                        test |-> Column(test, "id"),
                        time_of |-> IF e_time_col THEN Column(test_all, "id") ELSE <<>>,
                        eval_y_true |-> EvalYTrue(test, e_time_col, e_window),
                        eval_y_pred |-> EvalYPred(e_fold, test, e_time_col, e_window),
                        coef |-> model.coef,
                        intercept |-> model.intercept,
                        scaler_stats |-> model.scaler_stats])
    /\ UNCHANGED <<e_main, e_df, e_strategy, e_groups_given, e_time_col, e_window,
                   e_n_splits, e_clean, e_splits, e_result, notEval>>

\* Lines 719-733
EvalReturn ==
    /\ e_pc = "folds"
    /\ e_fold > Len(e_splits)
    /\ e_result' = EvalResult(e_folds)
    /\ e_pc' = "returned"
    /\ UNCHANGED <<e_main, e_df, e_strategy, e_groups_given, e_time_col, e_window,
                   e_n_splits, e_clean, e_splits, e_fold, e_folds, notEval>>

EvalNext ==
    \/ MainPrepare
    \/ EvalStart
    \/ EvalSplit
    \/ EvalFold
    \/ EvalReturn

\* The eval_one_method variables while another component is exercised.
EvalIdle ==
    /\ e_pc = "idle"
    /\ e_main = FALSE
    /\ e_df = <<>>
    /\ e_strategy = "none"
    /\ e_groups_given = FALSE
    /\ e_time_col = FALSE
    /\ e_window = 0
    /\ e_n_splits = 0
    /\ e_clean = <<>>
    /\ e_splits = <<>>
    /\ e_fold = 0
    /\ e_folds = <<>>
    /\ e_result = UndefinedResult

\* ---- claims about eval_one_method and main ----

\* A row with every feature and the target finite.
FullyObserved(row) ==
    /\ row.M1_A # NaN /\ row.M1_A # Inf
    /\ row.M1_HR # NaN /\ row.M1_HR # Inf
    /\ row.target # NaN /\ row.target # Inf

\* A row none of whose features is missing.
FeaturesPresent(row) == row.M1_A # NaN /\ row.M1_HR # NaN

\* The members of a sequence.
Members(s) == {s[k] : k \in 1..Len(s)}

\* The subjects of the rows of df_clean at the positions idx.
SubjectsAt(idx) == {e_clean[idx[k]].subject_id : k \in 1..Len(idx)}

\* C15: once the splitter is built every row of the table it is given has
\* all features and the target finite, and in every evaluated fold the
\* times handed on belong to the very rows that were tested.
C15_OnlyObservedRowsSplit ==
    /\ e_pc \in {"split", "folds"} =>
           \A i \in 1..Len(e_clean) : FullyObserved(e_clean[i])
    /\ \A k \in 1..Len(e_folds) :
           e_time_col => e_folds[k].time_of = e_folds[k].test

C17_GroupFoldsPartition ==
    (e_strategy = "groupkfold" /\ e_pc \in {"folds", "returned", "raised"}
         /\ e_splits # <<>>) =>
        /\ Len(e_splits) = e_n_splits
        /\ e_n_splits >= 2
        /\ \A f \in 1..Len(e_splits) :
               /\ Members(e_splits[f].train) \cap Members(e_splits[f].test) = {}
               /\ SubjectsAt(e_splits[f].train) \cap SubjectsAt(e_splits[f].test) = {}
               /\ Members(e_splits[f].train) \cup Members(e_splits[f].test)
                      = 1..Len(e_clean)
        /\ \A i \in 1..Len(e_clean) :
               Cardinality({f \in 1..Len(e_splits) : i \in Members(e_splits[f].test)}) = 1

\* C17 witness: three groups split three ways, all three folds evaluated.
C17_Witness ==
    /\ e_strategy = "groupkfold"
    /\ e_pc = "returned"
    /\ e_n_splits = 3
    /\ Cardinality({e_clean[i].subject_id : i \in 1..Len(e_clean)}) = 3
    /\ Len(e_folds) = 3

\* C18: in a group-strategy run of main, when the splitter of a method is
\* built, 2 <= n_splits <= the number of groups among the rows it is to
\* split; and with fewer than 2 groups in the table the run stops before
\* eval_one_method is entered.
C18_NSplitsWithinGroups ==
    (e_main /\ e_strategy = "groupkfold") =>
        /\ e_pc = "split" =>
               /\ 2 <= e_n_splits
               /\ e_n_splits <= Cardinality({e_clean[i].subject_id : i \in 1..Len(e_clean)})
        /\ Cardinality({e_df[i].subject_id : i \in 1..Len(e_df)}) < 2 =>
               /\ e_pc \in {"main", "stopped"}
               /\ e_folds = <<>>

FoldEvaluated(k) ==
    /\ Len(TrainSlice(e_clean, e_splits[k])) > 0
    /\ Len(TestSlice(e_clean, e_splits[k])) > 0

\* The evaluated folds, in fold order.
EvaluatedFolds == AscendingOf({k \in 1..Len(e_splits) : FoldEvaluated(k)})

\* The row of df_clean with the given id.
RowById(id) == e_clean[CHOOSE i \in 1..Len(e_clean) : e_clean[i].id = id]

\* The evaluation pairs of fold k: the rows behind each pair.
PairsOfFold(k) == EvalPairRows(TestSlice(e_clean, e_splits[k]), e_time_col, e_window)

\* The sequences f[ks[1]], f[ks[2]], ... joined.
RECURSIVE ConcatOver(_, _)
ConcatOver(f, ks) ==
    IF ks = <<>> THEN <<>> ELSE f[Head(ks)] \o ConcatOver(f, Tail(ks))

\* C21: the returned dictionary holds one entry per evaluated fold, in fold
\* order, in mape_each_fold, coef_each_fold (one value per feature column),
\* intercept_each_fold and scaler_stats_each_fold; all_y_true and
\* all_y_pred have the same length and are the evaluation pairs of the
\* evaluated folds joined in fold order, a skipped fold giving none.
C21_OneEntryPerEvaluatedFold ==
    (e_pc = "returned" /\ e_splits # <<>>) =>
        LET ev    == EvaluatedFolds
            model(k) == FoldModel(TrainSlice(e_clean, e_splits[k]), FeatureCols)
            preds == [k \in 1..Len(e_splits) |->
                         [i \in 1..Len(PairsOfFold(k)) |->
                             [fold |-> k, rows |-> PairsOfFold(k)[i]]]]
            all_pred == ConcatOver(preds, ev)
        IN  /\ Len(e_result.mape_each_fold) = Len(ev)
            /\ Len(e_result.coef_each_fold) = Len(ev)
            /\ Len(e_result.intercept_each_fold) = Len(ev)
            /\ Len(e_result.scaler_stats_each_fold) = Len(ev)
            /\ \A j \in 1..Len(ev) :
                   /\ e_result.mape_each_fold[j].y_pred = preds[ev[j]]
                   /\ e_result.coef_each_fold[j] = model(ev[j]).coef
                   /\ Len(e_result.coef_each_fold[j]) = Len(FeatureCols)
                   /\ e_result.intercept_each_fold[j] = model(ev[j]).intercept
                   /\ e_result.scaler_stats_each_fold[j] = model(ev[j]).scaler_stats
            /\ Len(e_result.all_y_true) = Len(e_result.all_y_pred)
            /\ e_result.all_y_pred = all_pred
            /\ \A i \in 1..Len(all_pred) :
                   LET targets == [r \in 1..Len(all_pred[i].rows) |->
                                      RowById(all_pred[i].rows[r]).target]
                   IN  /\ e_result.all_y_true[i].num = SumSeq(targets)
                       /\ e_result.all_y_true[i].den = Len(targets)

\* C21 witness: a run has returned after skipping its first fold and
\* evaluating its second.
C21_Witness ==
    /\ e_pc = "returned"
    /\ Len(e_splits) = 2
    /\ ~FoldEvaluated(1)
    /\ FoldEvaluated(2)
    /\ Len(e_result.coef_each_fold) = 1
    /\ Len(e_result.all_y_true) >= 1

\* What the test rows of a fold are changed by in a second run: nothing,
\* a feature, the target, everything.
TestRowChanges == {<<0, 0, 0>>, <<5, 0, 0>>, <<0, 0, 5>>, <<5, 3, 5>>}

\* The tables that differ from df_clean only in the values of the rows of
\* a fold's test slice, the same values being missing.
TablesChangedAt(split) ==
    LET pos == split.test
    IN  {[i \in 1..Len(e_clean) |->
            IF \E p \in 1..Len(pos) : pos[p] = i /\ FullyObserved(e_clean[i])
            THEN LET d == ch[CHOOSE p \in 1..Len(pos) : pos[p] = i]
                 IN  [e_clean[i] EXCEPT !.M1_A = @ + d[1], !.M1_HR = @ + d[2],
                                        !.target = @ + d[3]]
            ELSE e_clean[i]] : ch \in [1..Len(pos) -> TestRowChanges]}

\* C23: what a fold records of its fit - scaler mean and scale,
\* coefficients, intercept - is the same for every table that differs only
\* in the values of the rows of that fold's test slice.
C23_FitUsesTrainingRowsOnly ==
    \A k \in 1..Len(e_folds) :
        \A other \in TablesChangedAt(e_splits[e_folds[k].fold]) :
            LET model == FoldModel(TrainSlice(other, e_splits[e_folds[k].fold]),
                                   FeatureCols)
            IN  /\ e_folds[k].scaler_stats = model.scaler_stats
                /\ e_folds[k].coef = model.coef
                /\ e_folds[k].intercept = model.intercept

\* C23 witness: a fold was fitted on two training rows of different
\* feature values and tested on a fully observed row.
C23_Witness ==
    \E k \in 1..Len(e_folds) :
        /\ Len(e_folds[k].train) = 2
        /\ e_folds[k].scaler_stats[1].var.num > 0
        /\ Len(e_folds[k].test) = 1
        /\ FullyObserved(RowById(e_folds[k].test[1]))

\* C29: with window aggregation on, the rows averaged into one evaluation
\* pair belong to one group.
C29_WindowsWithinOneGroup ==
    \A k \in 1..Len(e_folds) :
        \A i \in 1..Len(e_folds[k].eval_y_pred) :
            \A a, b \in Members(e_folds[k].eval_y_pred[i].rows) :
                RowById(a).subject_id = RowById(b).subject_id

(***************************************************************************)
(* 8. mape (train_bp_models.py 34-42 and BP_Analysis/evaluate_models.py    *)
(*    16-23).  The result is kept exact, as a fraction [num, den]; np.inf  *)
(*    and np.nan are [num |-> Inf, den |-> 1] and [num |-> NaN, den |-> 1].*)
(***************************************************************************)

\* A wrong mask: every non-zero reference value is used.
MapeMaskNonZero(t) == t # 0 /\ t # NaN

\* mask = y_true > 0 (NaN compares false)
MapeMask(t) == t # NaN /\ t > 0

\* np.mean(np.abs((y_pred[mask] - y_true[mask]) / y_true[mask])) * 100.0,
\* or np.inf when the mask is empty; NaN in a used prediction makes the
\* mean NaN.
MapeOf(y_true, y_pred) ==
    LET mask  == [i \in 1..Len(y_true) |-> MapeMask(y_true[i])]
        t     == SelectRows(y_true, mask)
        p     == SelectRows(y_pred, mask)
        terms == [i \in 1..Len(t) |-> [num |-> Abs(p[i] - t[i]), den |-> t[i]]]
        total == FracSum(terms)
    IN  IF Len(t) = 0 THEN [num |-> Inf, den |-> 1]
        ELSE IF \E i \in 1..Len(p) : p[i] = NaN THEN [num |-> NaN, den |-> 1]
        ELSE Frac(100 * total.num, Len(t) * total.den)

\* train_bp_models.mape
Mape(y_true, y_pred) == MapeOf(y_true, y_pred)

\* evaluate_models.mape: the same text
EvaluateModelsMape(y_true, y_pred) == MapeOf(y_true, y_pred)

\* ---- the calls the model makes of mape ----

\* Most samples of a call.
MaxMapeSamples == 3

\* Reference values: negative, zero, and the two of the example.
MapeTrue == {-10, 0, 50, 100}

\* Predictions, NaN for a failed one.
MapePred == {NaN, 0, 55, 90}

MapeInit ==
    /\ p_pc = "start"
    /\ \E n \in 0..MaxMapeSamples :
           /\ p_true \in [1..n -> MapeTrue]
           /\ p_pred \in [1..n -> MapePred]
    /\ p_out = [num |-> 0, den |-> 1]
    /\ p_out2 = [num |-> 0, den |-> 1]

\* train_bp_models.mape(y_true, y_pred)
MapeTrain ==
    /\ p_pc = "start"
    /\ p_out' = Mape(p_true, p_pred)
    /\ p_pc' = "train"
    /\ UNCHANGED <<p_true, p_pred, p_out2, notMape>>

\* evaluate_models.mape(y_true, y_pred) on the same arrays
MapeEvaluate ==
    /\ p_pc = "train"
    /\ p_out2' = EvaluateModelsMape(p_true, p_pred)
    /\ p_pc' = "both"
    /\ UNCHANGED <<p_true, p_pred, p_out, notMape>>

MapeNext == MapeTrain \/ MapeEvaluate

\* The mape variables while another component is exercised.
MapeIdle ==
    /\ p_pc = "idle"
    /\ p_true = <<>>
    /\ p_pred = <<>>
    /\ p_out = [num |-> 0, den |-> 1]
    /\ p_out2 = [num |-> 0, den |-> 1]

\* ---- claims about mape ----

\* The samples with true > 0.
Positive == {i \in 1..Len(p_true) : p_true[i] > 0}

\* The least common multiple of the true values at the positions in S.
RECURSIVE LcmOver(_)
LcmOver(S) ==
    IF S = {} THEN 1
    ELSE LET i == CHOOSE x \in S : TRUE
             r == LcmOver(S \ {i})
         IN  (p_true[i] * r) \div Gcd(p_true[i], r)

\* sum over S of |pred - true| / true, times the common multiple m of the
\* true values (an integer).
RECURSIVE ScaledErrorSum(_, _)
ScaledErrorSum(S, m) ==
    IF S = {} THEN 0
    ELSE LET i == CHOOSE x \in S : TRUE
         IN  Abs(p_pred[i] - p_true[i]) * (m \div p_true[i])
                 + ScaledErrorSum(S \ {i}, m)

\* C20: mape is +infinity when no sample has true > 0 and otherwise
\* 100 * mean(|pred - true| / true) over exactly the samples with true > 0
\* (for finite predictions); [0, 50, 100] against [0, 55, 90] gives 10.0;
\* and evaluate_models.mape returns what train_bp_models.mape returns.
C20_MapeOverPositiveTruth ==
    /\ p_pc \in {"train", "both"} =>
           /\ Positive = {} => p_out = [num |-> Inf, den |-> 1]
           /\ (Positive # {} /\ \A i \in Positive : p_pred[i] # NaN) =>
                  /\ p_out.den > 0
                  /\ p_out.num * Cardinality(Positive) * LcmOver(Positive)
                         = 100 * ScaledErrorSum(Positive, LcmOver(Positive)) * p_out.den
           /\ (p_true = <<0, 50, 100>> /\ p_pred = <<0, 55, 90>>) =>
                  p_out.num = 10 * p_out.den
    /\ p_pc = "both" => p_out2 = p_out

\* C20 witness: both definitions have been applied to the example arrays.
C20_Witness ==
    /\ p_pc = "both"
    /\ p_true = <<0, 50, 100>>
    /\ p_pred = <<0, 55, 90>>
    /\ p_out.num = 10 * p_out.den

(***************************************************************************)
(* 9. compute_metrics (Waveform_Analysis/evaluate_waveforms.py 269-312).   *)
(*    The metrics are kept exact, as fractions; rmse is kept as the mean   *)
(*    square it is the root of, and a correlation that is computed as      *)
(*    what stands for any finite value.  The test std() == 0 is decided    *)
(*    by the rounding of np.mean, so the mean is computed in binary        *)
(*    floating point, rounded to nearest (ties to even) after every        *)
(*    operation, at a width the model can enumerate.                       *)
(***************************************************************************)

\* MAPE_DENOM_BASE = NORMALIZED_MAX - NORMALIZED_MIN (lines 49-51)
MAPE_DENOM_BASE == 10

\* Significant bits of the model's floats (the arrays are float64, which
\* carries 53: there the same rounding shows for values such as 0.1).
MantissaBits == 4

RECURSIVE Pow2(_)
Pow2(k) == IF k = 0 THEN 1 ELSE 2 * Pow2(k - 1)

\* The float nearest to a/b for a >= 0, b > 0, where a was multiplied by up
\* and b by down to bring the quotient to MantissaBits bits.
RECURSIVE RoundToFloat(_, _, _, _)
RoundToFloat(a, b, up, down) ==
    IF a = 0 THEN [num |-> 0, den |-> 1]
    ELSE IF a < b * Pow2(MantissaBits - 1) THEN RoundToFloat(2 * a, b, 2 * up, down)
    ELSE IF a >= b * Pow2(MantissaBits) THEN RoundToFloat(a, 2 * b, up, 2 * down)
    ELSE LET m   == a \div b
             rem == a % b
             mm  == IF 2 * rem > b \/ (2 * rem = b /\ m % 2 = 1) THEN m + 1 ELSE m
         IN  Frac(mm * down, up)

\* np.add.reduce over fewer than 8 floats: one after the other, each partial
\* sum rounded.
RECURSIVE FloatSum(_, _)
FloatSum(x, acc) ==
    IF x = <<>> THEN acc
    ELSE LET s == FracAdd(acc, [num |-> Head(x), den |-> 1])
         IN  FloatSum(Tail(x), RoundToFloat(s.num, s.den, 1, 1))

\* arr.mean() inside arr.std(): the rounded sum divided by the count and
\* rounded.
FloatMean(x) ==
    LET s == FloatSum(x, [num |-> 0, den |-> 1])
    IN  RoundToFloat(s.num, s.den * Len(x), 1, 1)

\* arr.std() == 0: the deviations from the computed mean are all zero.
StdIsZero(x) == \A i \in 1..Len(x) : [num |-> x[i], den |-> 1] = FloatMean(x)

\* A metric that is np.nan.
NaNMetric == [num |-> NaN, den |-> 1]

\* compute_metrics(reference, estimate)
ComputeMetrics(reference, estimate) ==
    LET mask      == [i \in 1..Len(reference) |->
                         IsFinite(reference[i]) /\ IsFinite(estimate[i])]
        ref       == SelectRows(reference, mask)
        est       == SelectRows(estimate, mask)
        n_samples == Len(ref)
        total     == Len(reference)
        diff      == [i \in 1..n_samples |-> est[i] - ref[i]]
        mae       == Frac(SumSeq([i \in 1..n_samples |-> Abs(diff[i])]), n_samples)
        denom     == IF MAPE_DENOM_BASE > 0 THEN MAPE_DENOM_BASE ELSE 1
    IN  IF n_samples = 0
        THEN [n_samples |-> 0,
              coverage |-> [num |-> 0, den |-> 1],
              mape |-> NaNMetric, mae |-> NaNMetric, rmse |-> NaNMetric,
              bias |-> NaNMetric, corr |-> NaN]
        ELSE [n_samples |-> n_samples,
              coverage |-> IF total # 0 THEN Frac(n_samples, total)
                           ELSE [num |-> 0, den |-> 1],
              mape |-> Frac(mae.num * 100, mae.den * denom),
              mae |-> mae,
              rmse |-> Frac(SumSeq([i \in 1..n_samples |-> diff[i] * diff[i]]), n_samples),
              bias |-> Frac(SumSeq(diff), n_samples),
              corr |-> IF StdIsZero(ref) \/ StdIsZero(est) THEN NaN ELSE SomeFinite]

\* ---- the calls the model makes of compute_metrics ----

\* Most samples of a series.
MaxMetricSamples == 3

\* Sample values: missing, infinite, and two numbers the model's floats hold
\* exactly.
MetricValues == {NaN, Inf, 7, 9}

MetricsInit ==
    /\ m_pc = "start"
    /\ \E n \in 0..MaxMetricSamples :
           /\ m_reference \in [1..n -> MetricValues]
           /\ m_estimate \in [1..n -> MetricValues]
    /\ m_out = [n_samples |-> 0]

Compute ==
    /\ m_pc = "start"
    /\ m_out' = ComputeMetrics(m_reference, m_estimate)
    /\ m_pc' = "done"
    /\ UNCHANGED <<m_reference, m_estimate, notMetrics>>

MetricsNext ==
    \/ Compute

\* The compute_metrics variables while another component is exercised.
MetricsIdle ==
    /\ m_pc = "idle"
    /\ m_reference = <<>>
    /\ m_estimate = <<>>
    /\ m_out = [n_samples |-> 0]

\* ---- claim C22 ----

\* The positions where both series are finite.
JointlyFinite == {i \in 1..Len(m_reference) :
                     IsFinite(m_reference[i]) /\ IsFinite(m_estimate[i])}

\* Whether the series a has one value only over the positions S.
ZeroVariance(a, S) == \A i, j \in S : a[i] = a[j]

\* The part of C22 that is not about the correlation: the counts, the
\* coverage, the error metrics and the result for no usable position.
MetricsOverJointlyFinite ==
    m_pc = "done" =>
        LET J   == JointlyFinite
            n   == Cardinality(J)
            err == [i \in 1..Len(m_reference) |->
                       IF i \in J THEN Abs(m_estimate[i] - m_reference[i]) ELSE 0]
        IN  /\ m_out.n_samples = n
            /\ n = 0 =>
                   /\ m_out.coverage = [num |-> 0, den |-> 1]
                   /\ m_out.mape = NaNMetric /\ m_out.mae = NaNMetric
                   /\ m_out.rmse = NaNMetric /\ m_out.bias = NaNMetric
                   /\ m_out.corr = NaN
            /\ n > 0 =>
                   /\ m_out.coverage.num * Len(m_reference) = n * m_out.coverage.den
                   /\ 0 <= m_out.coverage.num /\ m_out.coverage.num <= m_out.coverage.den
                   /\ m_out.mae.num * n = SumOver(err, J) * m_out.mae.den
                   /\ m_out.mape.num * 10 * m_out.mae.den
                          = m_out.mae.num * 100 * m_out.mape.den

\* C22: compute_metrics uses exactly the jointly finite positions for
\* n_samples, coverage (n_samples / len(reference), within [0, 1]) and the
\* metrics, mape is mae / 10 * 100, the correlation is NaN when either
\* series has zero variance, and with no jointly finite position the result
\* is n_samples 0, coverage 0.0 and NaN for every metric.
C22_MetricsAsClaimed ==
    /\ MetricsOverJointlyFinite
    /\ (m_pc = "done" /\ JointlyFinite # {}) =>
           ((ZeroVariance(m_reference, JointlyFinite)
             \/ ZeroVariance(m_estimate, JointlyFinite)) => m_out.corr = NaN)


(***************************************************************************)
(* 10. The estimator of a fold (eval_one_method, train_bp_models.py        *)
(*     527-575): built from estimator_kind and the number of training rows *)
(*     left after the NaN check, then fitted.  A cross-validated estimator *)
(*     splits its training rows with KFold(cv), which needs 2 <= cv <=     *)
(*     number of rows.                                                     *)
(***************************************************************************)

\* len(X_tr) < 20: ridge falls back to LinearRegression (line 542)
RIDGE_MIN_ROWS == 20

\* Most internal folds (lines 534, 548, 551)
MAX_CV_FOLDS == 5

\* Fewest internal folds of RidgeCV (line 534)
RIDGE_MIN_CV_FOLDS == 3

\* Training rows per internal fold (lines 534, 548, 551)
ROWS_PER_CV_FOLD == 10

\* A wrong choice: ridge is cross-validated whatever the number of rows.
AlwaysCrossValidated(estimator_kind, n) ==
    IF estimator_kind = "ridge"
    THEN [class |-> "RidgeCV",
          cv |-> Min2(MAX_CV_FOLDS, Max2(RIDGE_MIN_CV_FOLDS, n \div ROWS_PER_CV_FOLD + 1))]
    ELSE [class |-> "LinearRegression", cv |-> 0]

\* Lines 527-557: est for an estimator_kind and n = len(X_tr); cv is 0 for
\* an estimator without internal cross-validation, and an unknown kind
\* gives no estimator.
BuildEstimator(estimator_kind, n) ==
    IF estimator_kind = "ols" THEN [class |-> "LinearRegression", cv |-> 0]
    ELSE IF estimator_kind = "ridge"
    THEN LET n_cv_folds == Min2(MAX_CV_FOLDS,
                                Max2(RIDGE_MIN_CV_FOLDS, n \div ROWS_PER_CV_FOLD + 1))
         IN  IF n < RIDGE_MIN_ROWS THEN [class |-> "LinearRegression", cv |-> 0]
             ELSE [class |-> "RidgeCV", cv |-> n_cv_folds]
    ELSE IF estimator_kind = "lasso"
    THEN [class |-> "LassoCV", cv |-> Min2(MAX_CV_FOLDS, n \div ROWS_PER_CV_FOLD + 1)]
    ELSE IF estimator_kind = "enet"
    THEN [class |-> "ElasticNetCV", cv |-> Min2(MAX_CV_FOLDS, n \div ROWS_PER_CV_FOLD + 1)]
    ELSE IF estimator_kind = "huber" THEN [class |-> "HuberRegressor", cv |-> 0]
    ELSE IF estimator_kind = "nonneg_ols" THEN [class |-> "LinearRegression", cv |-> 0]
    ELSE [class |-> "none", cv |-> 0]

\* Whether the estimator cross-validates inside fit.
CrossValidated(reg) == reg.class \in {"RidgeCV", "LassoCV", "ElasticNetCV"}

\* pipe.fit(X_tr, y_tr) (line 575) raises for a cross-validated estimator
\* whose cv KFold cannot use on n rows.
EstimatorFitRaises(reg, n) == CrossValidated(reg) /\ (reg.cv < 2 \/ reg.cv > n)

\* ---- the folds the model builds estimators for ----

\* Most training rows of a fold.
MaxTrainRows == 52

EstimatorKinds == {"ols", "ridge", "lasso", "enet", "huber", "nonneg_ols", "unknown"}

RegInit ==
    /\ r_pc = "start"
    /\ r_kind \in EstimatorKinds
    /\ r_n \in 1..MaxTrainRows
    /\ r_reg = [class |-> "none", cv |-> 0]

\* Lines 527-562
Build ==
    /\ r_pc = "start"
    /\ r_reg' = BuildEstimator(r_kind, r_n)
    /\ r_pc' = IF BuildEstimator(r_kind, r_n).class = "none" THEN "raised" ELSE "built"
    /\ UNCHANGED <<r_kind, r_n, notReg>>

\* Lines 575-717: the fold is fitted, evaluated and recorded, or the fit
\* raises.
Fit ==
    /\ r_pc = "built"
    /\ r_pc' = IF EstimatorFitRaises(r_reg, r_n) THEN "raised" ELSE "recorded"
    /\ UNCHANGED <<r_kind, r_n, r_reg, notReg>>

RegNext ==
    \/ Build
    \/ Fit

\* The estimator variables while another component is exercised.
RegIdle ==
    /\ r_pc = "idle"
    /\ r_kind = "none"
    /\ r_n = 0
    /\ r_reg = [class |-> "none", cv |-> 0]

\* ---- claims C25, C30 ----

\* C25: a ridge fold with fewer than 20 training rows is fitted by plain
\* least squares and is still evaluated and recorded; with 20 rows or more
\* it is fitted by RidgeCV.
C25_SmallRidgeFoldUsesOLS ==
    (r_kind = "ridge" /\ r_pc # "start") =>
        /\ r_n < 20 => r_reg.class = "LinearRegression"
        /\ r_n >= 20 => r_reg.class = "RidgeCV"
        /\ r_pc # "raised"

\* C25 witness: a ridge fold of 19 training rows has been recorded with a
\* LinearRegression.
C25_Witness ==
    /\ r_kind = "ridge"
    /\ r_n = 19
    /\ r_pc = "recorded"
    /\ r_reg.class = "LinearRegression"

\* C30: the cv argument of every cross-validated estimator that is built
\* is at least 2 and at most 5: min(5, max(3, n // 10 + 1)) for ridge,
\* min(5, n // 10 + 1) for lasso and enet, n being the training rows.
C30_InternalFoldsValid ==
    (r_pc # "start" /\ CrossValidated(r_reg)) =>
        /\ 2 <= r_reg.cv /\ r_reg.cv <= 5
        /\ r_kind = "ridge" => r_reg.cv = Min2(5, Max2(3, r_n \div 10 + 1))
        /\ r_kind \in {"lasso", "enet"} => r_reg.cv = Min2(5, r_n \div 10 + 1)

(***************************************************************************)
(* 11. De-standardisation of a fold's model (eval_one_method,              *)
(*     train_bp_models.py 701-708) and the prediction made from the        *)
(*     exported coefficients (BP_Analysis/evaluate_models.py 25-38).       *)
(*     Feature values, means and scales are integers in units of 1e-12 of  *)
(*     the feature's unit, so that the 1e-12 added to scale_ is 1;         *)
(*     coefficients of the standardised space and predictions are in the   *)
(*     target's unit.  Quotients are kept exact, as a whole number plus a  *)
(*     fraction [whole, num, den] with 0 <= num < den.                     *)
(***************************************************************************)

\* The 1e-12 added to scaler.scale_ (lines 707-708), in the feature unit
\* of this section.
EPSILON == 1

\* n/d for d > 0, as a whole number plus a proper fraction in lowest terms.
Mixed(n, d) ==
    LET f == Frac(n % d, d)
    IN  [whole |-> n \div d, num |-> f.num, den |-> f.den]

\* a + b
MixedAdd(a, b) ==
    LET l == (a.den \div Gcd(a.den, b.den)) * b.den
        n == a.num * (l \div a.den) + b.num * (l \div b.den)
        f == Frac(n % l, l)
    IN  [whole |-> a.whole + b.whole + n \div l, num |-> f.num, den |-> f.den]

\* -a
MixedNeg(a) ==
    IF a.num = 0 THEN [whole |-> -a.whole, num |-> 0, den |-> 1]
    ELSE [whole |-> -a.whole - 1, num |-> a.den - a.num, den |-> a.den]

\* np.sum / np.dot over exact terms.
RECURSIVE MixedSum(_)
MixedSum(terms) ==
    IF terms = <<>> THEN Mixed(0, 1) ELSE MixedAdd(Head(terms), MixedSum(Tail(terms)))

\* A wrong de-standardisation: the mean is not taken out of the intercept.
InterceptKept(intercept_std, coef_std, mean, scale) == Mixed(intercept_std, 1)

\* coef_real = coef_std / (scaler.scale_ + 1e-12)     (line 707)
CoefReal(coef_std, scale) ==
    [j \in 1..Len(coef_std) |-> [num |-> coef_std[j], den |-> scale[j] + EPSILON]]

\* intercept_real = intercept_std
\*     - np.sum(coef_std * scaler.mean_ / (scaler.scale_ + 1e-12))   (line 708)
InterceptReal(intercept_std, coef_std, mean, scale) ==
    MixedAdd(Mixed(intercept_std, 1),
             MixedNeg(MixedSum([j \in 1..Len(coef_std) |->
                                   Mixed(coef_std[j] * mean[j], scale[j] + EPSILON)])))

\* evaluate_models.predict_with_coefficients for one row:
\* np.dot(X, coefficients) + intercept
PredictWithCoefficients(x, coefficients, intercept) ==
    MixedAdd(MixedSum([j \in 1..Len(x) |->
                          Mixed(x[j] * coefficients[j].num, coefficients[j].den)]),
             intercept)

\* pipe.predict for one row (line 576): the regression applied to
\* StandardScaler.transform(x) = (x - mean_) / scale_.
PipePredict(x, coef_std, intercept_std, mean, scale) ==
    MixedAdd(MixedSum([j \in 1..Len(x) |->
                          Mixed(coef_std[j] * (x[j] - mean[j]), scale[j])]),
             Mixed(intercept_std, 1))

\* ---- the models and rows the section is exercised on ----

\* Most feature columns.
MaxFeatures == 2

\* reg.coef_ and reg.intercept_ of the fitted regression.
CoefStdValues == {-2, 1, 5}

InterceptStdValues == {0, 100}

\* scaler.mean_ of a column.
MeanValues == {0, 3}

\* scaler.scale_ of a column: 1e-9 and 1e-8 of the feature's unit; the
\* columns of one model share it, which keeps the sums within the integers
\* TLC has.
ScaleValues == {1000, 10000}

\* How far from the mean a row is, in scales: at the mean, one unit off,
\* one scale off.
DestdInit ==
    /\ d_pc = "start"
    /\ \E k \in 1..MaxFeatures : \E s \in ScaleValues :
           /\ d_coef_std \in [1..k -> CoefStdValues]
           /\ d_mean \in [1..k -> MeanValues]
           /\ d_scale = [j \in 1..k |-> s]
           /\ \E off \in [1..k -> {0, 1, s}] : d_x = [j \in 1..k |-> d_mean[j] + off[j]]
    /\ d_intercept_std \in InterceptStdValues
    /\ d_coef_real = <<>>
    /\ d_intercept_real = Mixed(0, 1)
    /\ d_out = [raw |-> Mixed(0, 1), standardized |-> Mixed(0, 1)]

\* Lines 701-711: the coefficients of the fold are brought back to the raw
\* feature space and recorded.
Destandardize ==
    /\ d_pc = "start"
    /\ d_coef_real' = CoefReal(d_coef_std, d_scale)
    /\ d_intercept_real' = InterceptReal(d_intercept_std, d_coef_std, d_mean, d_scale)
    /\ d_pc' = "recorded"
    /\ UNCHANGED <<d_coef_std, d_intercept_std, d_mean, d_scale, d_x, d_out, notDestd>>

\* The row d_x predicted from the recorded coefficients
\* (predict_with_coefficients) and by the fitted pipeline.
Predict ==
    /\ d_pc = "recorded"
    /\ d_out' = [raw |-> PredictWithCoefficients(d_x, d_coef_real, d_intercept_real),
                 standardized |-> PipePredict(d_x, d_coef_std, d_intercept_std,
                                              d_mean, d_scale)]
    /\ d_pc' = "predicted"
    /\ UNCHANGED <<d_coef_std, d_intercept_std, d_mean, d_scale, d_x, d_coef_real,
                   d_intercept_real, notDestd>>

DestdNext ==
    \/ Destandardize
    \/ Predict

\* The de-standardisation variables while another component is exercised.
DestdIdle ==
    /\ d_pc = "idle"
    /\ d_coef_std = <<>>
    /\ d_intercept_std = 0
    /\ d_mean = <<>>
    /\ d_scale = <<>>
    /\ d_x = <<>>
    /\ d_coef_real = <<>>
    /\ d_intercept_real = Mixed(0, 1)
    /\ d_out = [raw |-> Mixed(0, 1), standardized |-> Mixed(0, 1)]

\* ---- claim C24 ----

\* |a - b| <= 1e-6
WithinTolerance(a, b) ==
    LET diff == MixedAdd(a, MixedNeg(b))
    IN  \/ diff.whole = 0 /\ diff.num <= diff.den \div 1000000
        \/ diff.whole = -1 /\ diff.den - diff.num <= diff.den \div 1000000

\* C24: the prediction made from the de-standardised coefficients and
\* intercept equals the prediction of the standardised space within 1e-6,
\* for every raw input row.
C24_RoundTripWithinTolerance ==
    d_pc = "predicted" => WithinTolerance(d_out.raw, d_out.standardized)

\* The round trip does stay within the tolerance for rows at the mean of
\* every column, and for rows within a hundredth of a scale of it.
RoundTripNearTheMean ==
    LET near   == \A j \in 1..Len(d_x) : Abs(d_x[j] - d_mean[j]) <= 1
        larger == \A j \in 1..Len(d_x) : d_scale[j] = 10000
    IN  (d_pc = "predicted" /\ near /\ larger)
            => WithinTolerance(d_out.raw, d_out.standardized)

(***************************************************************************)
(* Specifications: one per component, the other components held idle.     *)
(***************************************************************************)

InitFilter == FilterInit /\ TrimIdle /\ InterpIdle /\ OutlierIdle /\ BeatsIdle /\ AggIdle
    /\ EvalIdle /\ MapeIdle
    /\ MetricsIdle /\ RegIdle /\ DestdIdle

SpecFilter == InitFilter /\ [][FilterNext]_vars

InitTrim == TrimInit /\ FilterIdle /\ InterpIdle /\ OutlierIdle /\ BeatsIdle /\ AggIdle
    /\ EvalIdle /\ MapeIdle
    /\ MetricsIdle /\ RegIdle /\ DestdIdle

SpecTrim == InitTrim /\ [][TrimNext]_vars

InitInterp == InterpInit /\ FilterIdle /\ TrimIdle /\ OutlierIdle /\ BeatsIdle /\ AggIdle
    /\ EvalIdle /\ MapeIdle
    /\ MetricsIdle /\ RegIdle /\ DestdIdle

SpecInterp == InitInterp /\ [][InterpNext]_vars

InitOutliers == OutlierInit /\ FilterIdle /\ TrimIdle /\ InterpIdle /\ BeatsIdle /\ AggIdle
    /\ EvalIdle /\ MapeIdle
    /\ MetricsIdle /\ RegIdle /\ DestdIdle

SpecOutliers == InitOutliers /\ [][OutlierNext]_vars

InitBeats == BeatsOutlierInit /\ FilterIdle /\ TrimIdle /\ InterpIdle /\ OutlierIdle /\ AggIdle
    /\ EvalIdle /\ MapeIdle
    /\ MetricsIdle /\ RegIdle /\ DestdIdle

SpecBeats == InitBeats /\ [][BeatsNext]_vars

InitAgg ==
    AggInit /\ FilterIdle /\ TrimIdle /\ InterpIdle /\ OutlierIdle /\ BeatsIdle
    /\ EvalIdle /\ MapeIdle
    /\ MetricsIdle /\ RegIdle /\ DestdIdle

SpecAgg == InitAgg /\ [][AggNext]_vars

InitEval ==
    EvalInit /\ FilterIdle /\ TrimIdle /\ InterpIdle /\ OutlierIdle /\ BeatsIdle
    /\ AggIdle /\ MapeIdle
    /\ MetricsIdle /\ RegIdle /\ DestdIdle

SpecEval == InitEval /\ [][EvalNext]_vars

InitMape ==
    MapeInit /\ FilterIdle /\ TrimIdle /\ InterpIdle /\ OutlierIdle /\ BeatsIdle
    /\ AggIdle /\ EvalIdle
    /\ MetricsIdle /\ RegIdle /\ DestdIdle

SpecMape == InitMape /\ [][MapeNext]_vars

InitMetrics ==
    MetricsInit /\ FilterIdle /\ TrimIdle /\ InterpIdle /\ OutlierIdle /\ BeatsIdle
    /\ AggIdle /\ EvalIdle /\ MapeIdle /\ RegIdle /\ DestdIdle

SpecMetrics == InitMetrics /\ [][MetricsNext]_vars

InitReg ==
    RegInit /\ FilterIdle /\ TrimIdle /\ InterpIdle /\ OutlierIdle /\ BeatsIdle
    /\ AggIdle /\ EvalIdle /\ MapeIdle /\ MetricsIdle /\ DestdIdle

SpecReg == InitReg /\ [][RegNext]_vars

InitDestd ==
    DestdInit /\ FilterIdle /\ TrimIdle /\ InterpIdle /\ OutlierIdle /\ BeatsIdle
    /\ AggIdle /\ EvalIdle /\ MapeIdle /\ MetricsIdle /\ RegIdle

SpecDestd == InitDestd /\ [][DestdNext]_vars

=============================================================================
